---- MODULE Spec2Model ----
(***************************************************************************)
(* Session, PTY and transfer engine of the zync backend                    *)
(* (src-tauri/src/commands.rs, src-tauri/src/pty.rs).                      *)
(*                                                                         *)
(* Part 1: connection registry and PTY multiplexer (SpecPty).              *)
(* Part 2: SFTP transfer engine with the chunk pipeline (SpecXfer).        *)
(*                                                                         *)
(* Every `.await` of the source is a point where another command or task   *)
(* may run, so a handler is cut into one action per stretch of code        *)
(* between two awaits that touch shared state.                             *)
(***************************************************************************)
EXTENDS Integers, Sequences, FiniteSets, TLC

VARIABLES
    connections,   \* AppState.connections : id -> ConnectionHandle
    sessions,      \* PtyManager.sessions : term_id -> PtySession
    tasks,         \* live reader / driver tasks spawned by the PTY manager
    nextTask,      \* number of PTY tasks spawned so far
    tc,            \* terminal_create calls in progress, per caller
    disc,          \* ssh_disconnect calls in progress, per connection id
    discReturned,  \* ghost: ssh_disconnect(id) has returned, no connect since
    transfers,     \* AppState.transfers : transfer_id -> cancellation token
    xf,            \* transfer tasks (sftp_put / sftp_get / sftp_copy_to_server)
    cancelReq,     \* ghost: a cancel was issued for the transfer in its window
    local_listeners, \* TunnelManager.local_listeners : key -> owning connection
    io,            \* per remote driver task: its input and resize queues and
                   \* what it sent on the SSH channel
    ssh,           \* live SSH session objects (russh Handle + its handler)
    cc,            \* ssh_connect / ssh_test_connection calls in progress
    ret,           \* the command that returned last, with its result
    agent_keys,    \* SshManager.agent_keys : the keys of the virtual agent
    accepted,      \* ghost: keys a public-key authentication succeeded with
    agent_chan,    \* an agent-forward channel: requests read, responses written
    remote_forwards, \* TunnelManager.remote_forwards : the remote ports bound
    tunnels_json,  \* tunnels.json: whether it exists, and the saved tunnels
    events,        \* the tunnel:status-change events emitted, in order
    tcalls,        \* ghost: tunnel_start / tunnel_stop commands that returned
    started,       \* ghost: ids of the tunnels started and not stopped since
    detected_os,   \* per host: whether ssh_connect detects its OS
                   \* (ConnectionHandle.detected_os is Some)
    dir,           \* the entries of a directory, in the order read_dir
                   \* yields them
    connections_json, \* connections.json: whether it exists and can be
                   \* written, and each saved connection's private_key_path
    files,         \* the key files on disk: path -> content and readability
    fresh,         \* ghost: ssh_migrate_all_keys runs since the disk was
                   \* last changed by anything else (counted up to two)
    held,          \* who holds the lock of AppState.connections and who
                   \* the lock of PtyManager.sessions
    lk             \* ssh_exec and terminal_write calls in progress

vars == <<connections, sessions, tasks, nextTask, tc, disc,
          discReturned, transfers, xf, cancelReq, local_listeners, io,
          ssh, cc, ret, agent_keys, accepted, agent_chan,
          remote_forwards, tunnels_json, events, tcalls, started,
          detected_os, dir, connections_json, files, fresh, held, lk>>

ptyVars == <<sessions, tasks, nextTask, tc>>
xferVars == <<transfers, xf, cancelReq>>
agentVars == <<agent_keys, accepted>>
tunVars == <<remote_forwards, tunnels_json, events, tcalls, started>>
migVars == <<connections_json, files, fresh>>
lockVars == <<held, lk>>
ext == <<agent_chan, tunVars, detected_os, dir, migVars, lockVars>>
others == <<io, ssh, cc, ret, agentVars, ext>>

(***************************************************************************)
(* Bounds and identifier universes                                         *)
(***************************************************************************)
MaxTasks == 2         \* PTY tasks spawned in one behaviour

LOCAL_ID == "local"   \* the literal connection id of the local host
RemoteIds == {"c1"}
AllRemoteIds == RemoteIds \cup {"c2"}   \* the ids a registry can hold
ConnIds == RemoteIds \cup {LOCAL_ID}
TermIds == {"t1", "t2"}
Calls == {"k1", "k2"}

NoTask == 0

\* Queues and channel of a remote driver: rx and resize_rx are the two mpsc
\* channels, sent the chunks passed to channel.data, win the last window
\* size sent, out whether output was emitted; acc and nrz count the writes
\* and resizes accepted into the queues.
NewIo == [rx |-> <<>>, resize_rx |-> <<>>, acc |-> 0, nrz |-> 0,
          sent |-> <<>>, win |-> 0, out |-> FALSE,
          req |-> 0, wc |-> 0, issued |-> 0,
          got |-> <<>>, emitted |-> <<>>]
IoOf(d) == IF d \in DOMAIN io THEN io[d] ELSE NewIo
SetIo(d, rec) ==
    io' = [x \in DOMAIN io \cup {d} |-> IF x = d THEN rec ELSE io[x]]

\* The driver task with id d is alive: it holds the receiving ends.
Alive(d) == \E tk \in tasks : tk.id = d /\ tk.kind = "Remote"

\* A driver task that ends or is aborted drops its receivers and its SSH
\* channel: what was still queued is gone, and so is the record of it.
EndDrivers(ids) == [d \in DOMAIN io \ ids |-> io[d]]

(***************************************************************************)
(* SSH session objects.  A session is the russh Handle together with the   *)
(* handler (Client) its task owns; it lives as long as something holds a   *)
(* strong reference to it: the local variable of a connect call, the       *)
(* ConnectionHandle of the registry, or the kept_alive_session field of    *)
(* the handler of the session tunnelled through it.                        *)
(***************************************************************************)
MaxHops == 2          \* hosts in a jump chain, the target included

NoSid == <<"none", 0, 0>>
NoReturn == [cmd |-> "none", id |-> "none", res |-> "none"]
IdleConnect == [pc |-> "idle", id |-> "none", test |-> FALSE, n |-> 0,
                hop |-> 0, gen |-> 0, sid |-> NoSid, tried |-> <<>>]

\* Drop every reference the holders in hs have.
Unref(S, hs) == [x \in DOMAIN S |-> [S[x] EXCEPT !.refs = @ \ hs]]

RECURSIVE Collect(_)
\* Sessions nobody refers to are dropped, and with them their handlers'
\* references to their jump sessions.
Collect(S) ==
    LET dead == {x \in DOMAIN S : S[x].refs = {}} IN
    IF dead = {} THEN S
    ELSE Collect(Unref([x \in DOMAIN S \ dead |-> S[x]],
                       {<<"handler", x>> : x \in dead}))

Drop(holder) == Collect(Unref(ssh, {holder}))

(***************************************************************************)
(* Part 1a: connection registry                                            *)
(***************************************************************************)

\* ssh_connect: the session is established, the SFTP subsystem is opened
\* (or not), and the entry is inserted under config.id, replacing any entry.
ssh_connect(c) ==
    /\ \E sftpOk \in BOOLEAN :
          connections' = [x \in DOMAIN connections \cup {c} |->
                             IF x = c
                             THEN [sftp |-> sftpOk]
                             ELSE connections[x]]
    /\ discReturned' = [discReturned EXCEPT ![c] = FALSE]
    /\ UNCHANGED <<ptyVars, disc, xferVars, local_listeners, others>>

\* JoinHandle::abort on the tasks of removed sessions.  A remote driver is an
\* async task and is cancelled; a local reader runs under spawn_blocking,
\* where abort has no effect once the closure is running.
AbortTasks(ids) ==
    {tk \in tasks : ~(tk.id \in ids /\ tk.kind = "Remote")}

\* PtyManager::close_by_connection
\* Mutant of close_by_connection: the connection id is not compared.
close_by_connection_all(c) ==
    LET gone == {t \in DOMAIN sessions : sessions[t].kind = "Remote"}
    IN  /\ sessions' = [t \in DOMAIN sessions \ gone |-> sessions[t]]
        /\ tasks' = AbortTasks({sessions[t].task : t \in gone})
        /\ io' = EndDrivers({sessions[t].task : t \in gone})

close_by_connection(c) ==
    LET gone == {t \in DOMAIN sessions : sessions[t].connection_id = c}
    IN  /\ sessions' = [t \in DOMAIN sessions \ gone |-> sessions[t]]
        /\ tasks' = AbortTasks({sessions[t].task : t \in gone})
        /\ io' = EndDrivers({sessions[t].task : t \in gone})

\* ssh_disconnect, first half: close the PTYs of the connection.
ssh_disconnect_close(c) ==
    /\ disc[c] = "idle"
    /\ close_by_connection(c)
    /\ disc' = [disc EXCEPT ![c] = "remove"]
    /\ UNCHANGED <<connections, nextTask, tc, discReturned, local_listeners, ssh, cc, ret, agentVars, ext, xferVars>>

\* Mutant of ssh_disconnect_remove: it returns without removing the entry.
ssh_disconnect_remove_keep_entry(c) ==
    /\ disc[c] = "remove"
    /\ disc' = [disc EXCEPT ![c] = "idle"]
    /\ discReturned' = [discReturned EXCEPT ![c] = TRUE]
    /\ UNCHANGED <<connections, ptyVars, xferVars, local_listeners, others>>

\* ssh_disconnect, second half: take the connections lock, remove the entry,
\* return Ok.
ssh_disconnect_remove(c) ==
    /\ disc[c] = "remove"
    /\ connections' = [x \in DOMAIN connections \ {c} |-> connections[x]]
    /\ disc' = [disc EXCEPT ![c] = "idle"]
    /\ discReturned' = [discReturned EXCEPT ![c] = TRUE]
    /\ ssh' = Drop(<<"registry", c>>)
    /\ UNCHANGED <<ptyVars, xferVars, local_listeners, io, cc, ret,
                   agentVars, ext>>

(***************************************************************************)
(* Part 1b: PTY multiplexer                                                *)
(***************************************************************************)
IdleCall == [pc |-> "idle", term |-> "t1", conn |-> LOCAL_ID, res |-> "none",
             chan |-> "none", task |-> NoTask]

\* The call has returned `r`; `ch` is what became of the SSH channel it opened.
Returned(r, ch) == [IdleCall EXCEPT !.pc = "done", !.res = r, !.chan = ch]

\* terminal_create up to its first await: dispatch on the connection id and,
\* for a remote id, clone the session handle out of the registry.
terminal_create(k, t, c) ==
    /\ tc[k].pc \in {"idle", "done"}
    /\ IF c = LOCAL_ID
       THEN tc' = [tc EXCEPT ![k] = [IdleCall EXCEPT !.pc = "l_check",
                                        !.term = t, !.conn = c]]
       ELSE IF c \in DOMAIN connections
            THEN tc' = [tc EXCEPT ![k] = [IdleCall EXCEPT !.pc = "open",
                                             !.term = t, !.conn = c]]
            ELSE tc' = [tc EXCEPT ![k] = Returned("ConnectionNotFound", "none")]
    /\ UNCHANGED <<connections, sessions, tasks, nextTask, disc,
                   discReturned, local_listeners, others, xferVars>>

\* session.lock().await.channel_open_session().await on the cloned handle.
\* The clone keeps the SSH session alive, so the open can succeed after the
\* registry entry is gone; it can also fail.
terminal_open_channel(k) ==
    /\ tc[k].pc = "open"
    /\ \E ok \in BOOLEAN :
          tc' = [tc EXCEPT ![k] =
                    IF ok THEN [@ EXCEPT !.pc = "r_check", !.chan = "open"]
                    ELSE Returned("ChannelOpenFailed", "none")]
    /\ UNCHANGED <<connections, sessions, tasks, nextTask, disc,
                   discReturned, local_listeners, others, xferVars>>

\* Mutant of remote_check: the duplicate check is missing.
remote_check_skipped(k) ==
    /\ tc[k].pc = "r_check"
    /\ tc' = [tc EXCEPT ![k] = [@ EXCEPT !.pc = "r_req"]]
    /\ UNCHANGED <<connections, sessions, tasks, nextTask, disc,
                   discReturned, local_listeners, others, xferVars>>

\* create_remote_session: the duplicate check under the sessions lock; on a
\* duplicate the unused channel is closed and Ok(()) returned.
remote_check(k) ==
    /\ tc[k].pc = "r_check"
    /\ IF tc[k].term \in DOMAIN sessions
       THEN tc' = [tc EXCEPT ![k] = Returned("Ok", "closed")]
       ELSE tc' = [tc EXCEPT ![k] = [@ EXCEPT !.pc = "r_req"]]
    /\ UNCHANGED <<connections, sessions, tasks, nextTask, disc,
                   discReturned, local_listeners, others, xferVars>>

\* create_remote_session: request_pty, request_shell, then spawn the driver.
remote_request(k) ==
    /\ tc[k].pc = "r_req"
    /\ \/ /\ tc' = [tc EXCEPT ![k] = Returned("RequestFailed", "closed")]
          /\ UNCHANGED <<tasks, nextTask>>
       \/ /\ nextTask < MaxTasks
          /\ tasks' = tasks \cup {[id |-> nextTask + 1, term |-> tc[k].term,
                                   kind |-> "Remote"]}
          /\ nextTask' = nextTask + 1
          /\ tc' = [tc EXCEPT ![k] = [@ EXCEPT !.pc = "insert",
                                         !.chan = "driver",
                                         !.task = nextTask + 1]]
    /\ UNCHANGED <<connections, sessions, disc, discReturned, local_listeners, others,
                   xferVars>>

\* create_local_session: the duplicate check, then openpty, spawn the shell
\* and spawn the blocking reader.
local_check(k) ==
    /\ tc[k].pc = "l_check"
    /\ IF tc[k].term \in DOMAIN sessions
       THEN /\ tc' = [tc EXCEPT ![k] = Returned("Ok", "none")]
            /\ UNCHANGED <<tasks, nextTask>>
       ELSE \/ /\ tc' = [tc EXCEPT ![k] = Returned("SpawnFailed", "none")]
               /\ UNCHANGED <<tasks, nextTask>>
            \/ /\ nextTask < MaxTasks
               /\ tasks' = tasks \cup {[id |-> nextTask + 1,
                                        term |-> tc[k].term, kind |-> "Local"]}
               /\ nextTask' = nextTask + 1
               /\ tc' = [tc EXCEPT ![k] = [@ EXCEPT !.pc = "insert",
                                              !.task = nextTask + 1]]
    /\ UNCHANGED <<connections, sessions, disc, discReturned, local_listeners, others,
                   xferVars>>

\* create_*_session: sessions.insert(term_id, session) under a second lock.
\* HashMap::insert replaces an entry under the same id; the replaced
\* session's JoinHandle is dropped, which does not stop its task.
session_insert(k) ==
    /\ tc[k].pc = "insert"
    /\ sessions' = [t \in DOMAIN sessions \cup {tc[k].term} |->
                       IF t = tc[k].term
                       THEN [connection_id |-> tc[k].conn,
                             kind |-> IF tc[k].conn = LOCAL_ID THEN "Local"
                                      ELSE "Remote",
                             task |-> tc[k].task]
                       ELSE sessions[t]]
    /\ tc' = [tc EXCEPT ![k] = [Returned("Ok", tc[k].chan) EXCEPT
                                     !.task = tc[k].task]]
    /\ UNCHANGED <<connections, tasks, nextTask, disc,
                   discReturned, local_listeners, others, xferVars>>

\* PtyManager::close (terminal_close)
terminal_close(t) ==
    /\ t \in DOMAIN sessions
    /\ sessions' = [x \in DOMAIN sessions \ {t} |-> sessions[x]]
    /\ tasks' = AbortTasks({sessions[t].task})
    /\ io' = EndDrivers({sessions[t].task})
    /\ UNCHANGED <<connections, nextTask, tc, disc, discReturned, local_listeners, ssh, cc, ret,
                   agentVars, ext, xferVars>>

\* A task ends by itself: the remote driver on ExitStatus / Eof / closed
\* channel, the local reader on EOF or a read error.  Neither touches the
\* session map.
task_exit(tk) ==
    /\ tk \in tasks
    /\ tasks' = tasks \ {tk}
    /\ io' = EndDrivers({tk.id})
    /\ UNCHANGED <<connections, sessions, nextTask, tc, disc,
                   discReturned, local_listeners, ssh, cc, ret, agentVars, ext, xferVars>>

(***************************************************************************)
(* Specification of the registry and the PTY multiplexer                   *)
(***************************************************************************)
InitBase ==
    /\ connections = <<>>
    /\ sessions = <<>>
    /\ tasks = {}
    /\ nextTask = 0
    /\ tc = [k \in Calls |-> IdleCall]
    /\ disc = [c \in AllRemoteIds |-> "idle"]
    /\ discReturned = [c \in AllRemoteIds |-> FALSE]
    /\ transfers = <<>>
    /\ xf = <<>>
    /\ cancelReq = <<>>
    /\ local_listeners = <<>>
    /\ io = <<>>
    /\ ssh = <<>>
    /\ cc = [k \in Calls |-> IdleConnect]
    /\ ret = NoReturn
    /\ accepted = {}
    /\ agent_chan = [requests |-> <<>>, responses |-> <<>>]
    /\ remote_forwards = {}
    /\ tunnels_json = [exists |-> FALSE, tunnels |-> {}]
    /\ events = <<>>
    /\ tcalls = 0
    /\ started = {}
    /\ dir = <<>>
    /\ connections_json = [exists |-> FALSE, writable |-> TRUE,
                           paths |-> <<>>]
    /\ files = <<>>
    /\ fresh = 0
    /\ held = [connections |-> "free", sessions |-> "free"]
    /\ lk = [k \in Calls |-> "idle"]

Init ==
    /\ InitBase
    /\ agent_keys = <<>>
    /\ detected_os = [c \in AllRemoteIds |-> TRUE]

NextPty ==
    \/ \E c \in RemoteIds : ssh_connect(c)
    \/ \E c \in RemoteIds : ssh_disconnect_close(c)
    \/ \E c \in RemoteIds : ssh_disconnect_remove(c)
    \/ \E k \in Calls, t \in TermIds, c \in ConnIds : terminal_create(k, t, c)
    \/ \E k \in Calls : terminal_open_channel(k)
    \/ \E k \in Calls : remote_check(k)
    \/ \E k \in Calls : remote_request(k)
    \/ \E k \in Calls : local_check(k)
    \/ \E k \in Calls : session_insert(k)
    \/ \E t \in TermIds : terminal_close(t)
    \/ \E tk \in tasks : task_exit(tk)

SpecPty == Init /\ [][NextPty]_vars

(***************************************************************************)
(* Part 2: SFTP transfer engine                                            *)
(*                                                                         *)
(* A source tree is a single file or a directory of files; a file is its   *)
(* byte size, and a chunk is the byte range [off, off + len) of its file,  *)
(* so the destination holds, per file, the sequence of ranges written.     *)
(***************************************************************************)
MaxFiles == 2          \* entries of a source directory
MaxShortReads == 1     \* reads per file that return less than asked for

ChunkSize == 4194304   \* vec![0u8; 4 * 1024 * 1024]
QueueCap == 4          \* mpsc::channel(4)
FinalProgress == 100   \* sftp_copy_to_server's closing progress event

ShortRead == 32768     \* what a read returns when it returns short
FileSizes == {0, 300, ChunkSize + 1}
Slots == {"x1"}
Tids == {"T1"}

SeqsUpTo(S, n) == UNION {[1..m -> S] : m \in 0..n}
FileTrees == {[isDir |-> FALSE, files |-> <<sz>>] : sz \in FileSizes}
DirTrees == {[isDir |-> TRUE, files |-> fs] : fs \in SeqsUpTo({0, 300}, MaxFiles)}
Trees == FileTrees \cup DirTrees

RECURSIVE SumSeq(_)
SumSeq(q) == IF q = <<>> THEN 0 ELSE Head(q) + SumSeq(Tail(q))

\* What the walks of get_local_size / get_remote_size can come back with:
\* an entry whose metadata call fails, or that lies in a directory whose
\* read_dir fails, counts 0.  seen are the files that were counted.  A
\* local file whose metadata cannot be read (nostat) stays so, and
\* upload_recursive fails at its std::fs::metadata; a metadata request over
\* SFTP that failed during the walk may succeed when the entry is
\* transferred.
Walks(tree) == SUBSET (1..Len(tree.files))

\* get_local_size / get_remote_size followed by `if total_size == 0 { 1 }`
TotalSize(tree, seen) ==
    LET n == SumSeq([i \in 1..Len(tree.files) |->
                       IF i \in seen THEN tree.files[i] ELSE 0])
    IN  IF n = 0 THEN 1 ELSE n

Min(a, b) == IF a < b THEN a ELSE b

\* Events on the bus, per transfer task.
Progress(tr, tot) == [ev |-> "progress", transferred |-> tr, total |-> tot,
                      msg |-> ""]
Success == [ev |-> "success", transferred |-> 0, total |-> 0, msg |-> ""]
Failure(m) == [ev |-> "error", transferred |-> 0, total |-> 0, msg |-> m]
Cancelled == [ev |-> "cancelled", transferred |-> 0, total |-> 0, msg |-> ""]

\* Items of the pipeline channel: Result<Vec<u8>, String>
Chunk(o, n) == [ok |-> TRUE, off |-> o, len |-> n]
ErrItem == [ok |-> FALSE, off |-> 0, len |-> 0]

NotTaken == 0 - 1

\* get_sftp
get_sftp(c) ==
    IF c \notin DOMAIN connections THEN "ConnectionNotFound"
    ELSE IF ~connections[c].sftp THEN "SftpNotInitialized"
    ELSE "Ok"

NewTransfer(kind, tid, src, dst, tree) ==
    [kind |-> kind, tid |-> tid, src |-> src, dst |-> dst, tree |-> tree,
     pc |-> "start", flag |-> FALSE, holds |-> {}, total |-> 0,
     transferred |-> 0, fi |-> 0, prod |-> "none", off |-> 0, shorts |-> 0,
     pend |-> ErrItem, cur |-> ErrItem, q |-> <<>>, rx |-> FALSE,
     nostat |-> {},
     dest |-> <<>>,
     result |-> "none", events |-> <<>>, cancelAt |-> NotTaken]

SlotFree(s) == s \notin DOMAIN xf

\* HashMap::insert / HashMap::remove on the cancellation table
Register(tid, s) ==
    [t \in DOMAIN transfers \cup {tid} |-> IF t = tid THEN s ELSE transfers[t]]
Unregister(tid) ==
    [t \in DOMAIN transfers \ {tid} |-> transfers[t]]

Spawn(s, rec) ==
    /\ xf' = [x \in DOMAIN xf \cup {s} |-> IF x = s THEN rec ELSE xf[x]]
    /\ cancelReq' = [x \in DOMAIN cancelReq \cup {s} |->
                        IF x = s THEN FALSE ELSE cancelReq[x]]

\* sftp_put: create and register the token, spawn the task, return Ok.
sftp_put(s, id, tree, tid) ==
    /\ SlotFree(s)
    /\ transfers' = Register(tid, s)
    /\ Spawn(s, NewTransfer("put", tid, id, id, tree))
    /\ UNCHANGED <<connections, ptyVars, disc, discReturned, local_listeners, others>>

\* sftp_get: spawn the task, return Ok.
sftp_get(s, id, tree, tid) ==
    /\ SlotFree(s)
    /\ Spawn(s, NewTransfer("get", tid, id, LOCAL_ID, tree))
    /\ UNCHANGED <<connections, ptyVars, disc, discReturned, local_listeners, others, transfers>>

\* sftp_copy_to_server: spawn the task, return Ok.
sftp_copy_to_server(s, src, dst, tree, tid) ==
    /\ SlotFree(s)
    /\ Spawn(s, NewTransfer("copy", tid, src, dst, tree))
    /\ UNCHANGED <<connections, ptyVars, disc, discReturned, local_listeners, others, transfers>>

\* sftp_cancel_transfer: set the flag of the token registered under the id.
\* Ghost: remember for which in-flight transfers of that id it was issued.
sftp_cancel_transfer(tid) ==
    /\ xf' = [x \in DOMAIN xf |->
                 IF tid \in DOMAIN transfers /\ transfers[tid] = x
                 THEN [xf[x] EXCEPT !.flag = TRUE] ELSE xf[x]]
    /\ cancelReq' = [x \in DOMAIN cancelReq |->
                        cancelReq[x] \/ (xf[x].tid = tid /\ xf[x].pc # "done")]
    /\ UNCHANGED <<connections, ptyVars, disc, discReturned, local_listeners, others, transfers>>

Running(s, p) == s \in DOMAIN xf /\ xf[s].pc = p
Set(s, rec) == xf' = [xf EXCEPT ![s] = rec]
Finish(rec, e, next) == [rec EXCEPT !.result = e, !.pc = next, !.rx = FALSE]
Emit(rec, e) == [rec EXCEPT !.events = Append(@, e)]
xferFrame == <<connections, ptyVars, disc, discReturned, cancelReq,
              local_listeners, others>>

\* The first file of the tree, or the directory itself, is visited next.
EnterTree(rec) ==
    IF rec.tree.isDir THEN [rec EXCEPT !.pc = "dir"]
    ELSE [rec EXCEPT !.pc = "open", !.fi = 1]

\* sftp_put task, up to upload_recursive.
put_start(s) ==
    /\ Running(s, "start") /\ xf[s].kind = "put"
    /\ LET r == xf[s] IN
       IF r.src = LOCAL_ID
       THEN IF r.tree.isDir
            THEN Set(s, Finish(r, "LocalDirNotImplemented", "cleanup"))
            ELSE \E ok \in BOOLEAN :
                   Set(s, Finish(r, IF ok THEN "Ok" ELSE "IoError", "cleanup"))
       ELSE IF get_sftp(r.src) # "Ok"
            THEN Set(s, Finish(r, get_sftp(r.src), "cleanup"))
            ELSE \E seen \in Walks(r.tree) :
                   Set(s, EnterTree(Emit([r EXCEPT
                                             !.holds = {r.src},
                                             !.nostat = 1..Len(r.tree.files) \ seen,
                                             !.total = TotalSize(r.tree, seen)],
                                         Progress(0, TotalSize(r.tree, seen)))))
    /\ UNCHANGED <<xferFrame, transfers>>

\* sftp_get task: get_sftp; an error goes straight to the terminal event.
get_start(s) ==
    /\ Running(s, "start") /\ xf[s].kind = "get"
    /\ LET r == xf[s] IN
       IF get_sftp(r.src) # "Ok"
       THEN Set(s, Finish(r, get_sftp(r.src), "emit"))
       ELSE Set(s, [r EXCEPT !.holds = {r.src}, !.pc = "register"])
    /\ UNCHANGED <<xferFrame, transfers>>

\* sftp_get task: get_remote_size, register the token, initial progress.
get_register(s) ==
    /\ Running(s, "register") /\ xf[s].kind = "get"
    /\ transfers' = Register(xf[s].tid, s)
    /\ \E seen \in Walks(xf[s].tree) :
          LET tot == TotalSize(xf[s].tree, seen) IN
          Set(s, EnterTree(Emit([xf[s] EXCEPT !.total = tot],
                                Progress(0, tot))))
    /\ UNCHANGED xferFrame

\* sftp_copy_to_server task: register the token.
copy_register(s) ==
    /\ Running(s, "start") /\ xf[s].kind = "copy"
    /\ transfers' = Register(xf[s].tid, s)
    /\ Set(s, [xf[s] EXCEPT !.pc = "src"])
    /\ UNCHANGED xferFrame

\* sftp_copy_to_server task: get_sftp(src).
copy_src(s) ==
    /\ Running(s, "src")
    /\ LET r == xf[s] IN
       IF get_sftp(r.src) # "Ok"
       THEN Set(s, Finish(r, get_sftp(r.src), "cleanup"))
       ELSE Set(s, [r EXCEPT !.holds = {r.src}, !.pc = "size"])
    /\ UNCHANGED <<xferFrame, transfers>>

\* sftp_copy_to_server task: get_remote_size, initial progress, early
\* cancellation check.
copy_size(s) ==
    /\ Running(s, "size")
    /\ \E seen \in Walks(xf[s].tree) :
          LET tot == TotalSize(xf[s].tree, seen)
              r == Emit([xf[s] EXCEPT !.total = tot], Progress(0, tot))
          IN  IF r.flag THEN Set(s, Finish(r, "Cancelled", "cleanup"))
              ELSE Set(s, [r EXCEPT !.pc = "dst"])
    /\ UNCHANGED <<xferFrame, transfers>>

\* sftp_copy_to_server task: get_sftp(dst).
copy_dst(s) ==
    /\ Running(s, "dst")
    /\ LET r == xf[s] IN
       IF get_sftp(r.dst) # "Ok"
       THEN Set(s, Finish(r, get_sftp(r.dst), "cleanup"))
       ELSE Set(s, EnterTree([r EXCEPT !.holds = @ \cup {r.dst}]))
    /\ UNCHANGED <<xferFrame, transfers>>

\* upload_recursive / download_recursive / copy_recursive_optimized on the
\* root directory: (copy: cancellation check,) stat, create the destination
\* directory, list the entries.
visit_dir(s) ==
    /\ Running(s, "dir")
    /\ LET r == xf[s] IN
       IF r.kind = "copy" /\ r.flag
       THEN Set(s, Finish(r, "Cancelled", "cleanup"))
       ELSE \E ok \in BOOLEAN :
              IF ~ok THEN Set(s, Finish(r, "IoError", "cleanup"))
              ELSE IF r.tree.files = <<>>
                   THEN Set(s, Finish(r, "Ok", "cleanup"))
                   ELSE Set(s, [r EXCEPT !.pc = "open", !.fi = 1])
    /\ UNCHANGED <<xferFrame, transfers>>

\* The file branch up to the consumer loop: (copy: cancellation check,)
\* stat, open source and destination (WRITE | CREATE | TRUNCATE), create the
\* channel and spawn the reader task.
open_file(s) ==
    /\ Running(s, "open")
    /\ LET r == xf[s] IN
       IF r.kind = "copy" /\ r.flag
       THEN Set(s, Finish(r, "Cancelled", "cleanup"))
       ELSE \E ok \in IF r.fi \in r.nostat THEN {FALSE} ELSE BOOLEAN :
              IF ~ok THEN Set(s, Finish(r, "IoError", "cleanup"))
              ELSE Set(s, [r EXCEPT !.pc = "recv",
                              !.dest = Append(@, <<>>),
                              !.q = <<>>, !.rx = TRUE, !.off = 0, !.shorts = 0,
                              !.prod = IF r.kind = "put" THEN "opening"
                                       ELSE "reading"])
    /\ UNCHANGED <<xferFrame, transfers>>

\* Reader task of upload_recursive: tokio::fs::File::open.
prod_open(s) ==
    /\ s \in DOMAIN xf /\ xf[s].prod = "opening"
    /\ \E ok \in BOOLEAN :
          Set(s, IF ok THEN [xf[s] EXCEPT !.prod = "reading"]
                 ELSE [xf[s] EXCEPT !.prod = "send_last", !.pend = ErrItem])
    /\ UNCHANGED <<xferFrame, transfers>>

\* What file.read(&mut buffer) can return with `rem` bytes left.
ReadSizes(rem, shorts) ==
    {Min(rem, ChunkSize)} \cup
    (IF shorts < MaxShortReads /\ ShortRead < Min(rem, ChunkSize)
     THEN {ShortRead} ELSE {})

\* Mutant of prod_read: buffer.truncate(n) is missing, the whole buffer is
\* sent after a short read.
prod_read_no_truncate(s) ==
    /\ s \in DOMAIN xf /\ xf[s].prod = "reading"
    /\ LET r == xf[s]
           rem == r.tree.files[r.fi] - r.off
       IN  \/ /\ rem = 0
              /\ Set(s, [r EXCEPT !.prod = "done"])
           \/ /\ rem > 0
              /\ \E n \in ReadSizes(rem, r.shorts) :
                    Set(s, [r EXCEPT !.prod = "sending",
                                     !.pend = Chunk(r.off, ChunkSize),
                                     !.off = @ + n,
                                     !.shorts = IF n < Min(rem, ChunkSize)
                                                THEN @ + 1 ELSE @])
           \/ Set(s, [r EXCEPT !.prod = "send_last", !.pend = ErrItem])
    /\ UNCHANGED <<xferFrame, transfers>>

\* Reader task: one read into a fresh 4 MiB buffer, truncated to n.
prod_read(s) ==
    /\ s \in DOMAIN xf /\ xf[s].prod = "reading"
    /\ LET r == xf[s]
           rem == r.tree.files[r.fi] - r.off
       IN  \/ /\ rem = 0
              /\ Set(s, [r EXCEPT !.prod = "done"])
           \/ /\ rem > 0
              /\ \E n \in ReadSizes(rem, r.shorts) :
                    Set(s, [r EXCEPT !.prod = "sending",
                                     !.pend = Chunk(r.off, n),
                                     !.off = @ + n,
                                     !.shorts = IF n < Min(rem, ChunkSize)
                                                THEN @ + 1 ELSE @])
           \/ Set(s, [r EXCEPT !.prod = "send_last", !.pend = ErrItem])
    /\ UNCHANGED <<xferFrame, transfers>>

\* Mutant of prod_send: the channel is unbounded, a send never waits.
prod_send_unbounded(s) ==
    /\ s \in DOMAIN xf /\ xf[s].prod \in {"sending", "send_last"}
    /\ LET r == xf[s] IN
       IF ~r.rx
       THEN Set(s, [r EXCEPT !.prod = "done", !.pend = ErrItem])
       ELSE Set(s, [r EXCEPT !.q = Append(@, r.pend), !.pend = ErrItem,
                             !.prod = IF r.prod = "sending" THEN "reading"
                                      ELSE "done"])
    /\ UNCHANGED <<xferFrame, transfers>>

\* Mutant of prod_send: a send waiting for a free slot is not woken when
\* the receiver is dropped.
prod_send_not_woken(s) ==
    /\ s \in DOMAIN xf /\ xf[s].prod \in {"sending", "send_last"}
    /\ LET r == xf[s] IN
       /\ Len(r.q) < QueueCap
       /\ IF ~r.rx
          THEN Set(s, [r EXCEPT !.prod = "done", !.pend = ErrItem])
          ELSE Set(s, [r EXCEPT !.q = Append(@, r.pend), !.pend = ErrItem,
                                !.prod = IF r.prod = "sending" THEN "reading"
                                         ELSE "done"])
    /\ UNCHANGED <<xferFrame, transfers>>

\* Reader task: tx.send(..).await.  It waits while the channel is full and
\* fails once the receiver is dropped.
prod_send(s) ==
    /\ s \in DOMAIN xf /\ xf[s].prod \in {"sending", "send_last"}
    /\ LET r == xf[s] IN
       IF ~r.rx
       THEN Set(s, [r EXCEPT !.prod = "done", !.pend = ErrItem])
       ELSE /\ Len(r.q) < QueueCap
            /\ Set(s, [r EXCEPT !.q = Append(@, r.pend), !.pend = ErrItem,
                                !.prod = IF r.prod = "sending" THEN "reading"
                                         ELSE "done"])
    /\ UNCHANGED <<xferFrame, transfers>>

ChunksWritten(rec) == SumSeq([i \in 1..Len(rec.dest) |-> Len(rec.dest[i])])

\* Mutant of ConsumeChunk: the cancellation flag is looked at after the
\* write instead of before it.
ConsumeChunk_CheckAfterWrite(r, item, wok, emit) ==
    IF ~item.ok THEN Finish(r, "IoError", "cleanup")
    ELSE IF ~wok THEN Finish(r, "IoError", "cleanup")
    ELSE LET w == [r EXCEPT !.dest[r.fi] = Append(@, <<item.off, item.len>>),
                            !.transferred = @ + item.len]
         IN  IF r.flag
             THEN [Finish(w, "Cancelled", "cleanup") EXCEPT
                      !.cancelAt = ChunksWritten(r)]
             ELSE IF emit THEN Emit(w, Progress(w.transferred, w.total)) ELSE w

\* Mutant of ConsumeChunk: the progress event is built before the counter
\* is incremented.
ConsumeChunk_StaleProgress(r, item, wok, emit) ==
    IF ~item.ok THEN Finish(r, "IoError", "cleanup")
    ELSE IF r.flag
    THEN [Finish(r, "Cancelled", "cleanup") EXCEPT
             !.cancelAt = ChunksWritten(r)]
    ELSE IF ~wok THEN Finish(r, "IoError", "cleanup")
    ELSE LET w == [r EXCEPT !.dest[r.fi] = Append(@, <<item.off, item.len>>),
                            !.transferred = @ + item.len]
         IN  IF emit THEN Emit(w, Progress(r.transferred, w.total)) ELSE w

\* Consumer loop body for a received chunk: `chunk_res?`, the cancellation
\* check, write_all, the counters and the throttled progress event.
ConsumeChunk(r, item, wok, emit) ==
    IF ~item.ok THEN Finish(r, "IoError", "cleanup")
    ELSE IF r.flag
    THEN [Finish(r, "Cancelled", "cleanup") EXCEPT
             !.cancelAt = ChunksWritten(r)]
    ELSE IF ~wok THEN Finish(r, "IoError", "cleanup")
    ELSE LET w == [r EXCEPT !.dest[r.fi] = Append(@, <<item.off, item.len>>),
                            !.transferred = @ + item.len]
         IN  IF emit THEN Emit(w, Progress(w.transferred, w.total)) ELSE w

\* rx.recv().await returned Some(chunk_res): `chunk_res?` and the
\* cancellation check follow without an await; a chunk that passes both is
\* in the consumer's hand (cur) while write_all(&chunk).await runs.
consume_chunk(s) ==
    /\ Running(s, "recv") /\ xf[s].q # <<>>
    /\ LET r == [xf[s] EXCEPT !.q = Tail(@)]
           item == Head(xf[s].q)
       IN  IF ~item.ok \/ r.flag
           THEN Set(s, ConsumeChunk(r, item, TRUE, FALSE))
           ELSE Set(s, [r EXCEPT !.cur = item, !.pc = "write"])
    /\ UNCHANGED <<xferFrame, transfers>>

\* write_all(&chunk).await has returned: its result, the counters and the
\* throttled progress event, then back to rx.recv().  The flag was looked
\* at before the write; a cancel that came during the write is seen at
\* the next chunk.
write_chunk(s) ==
    /\ Running(s, "write")
    /\ \E wok, emit \in BOOLEAN :
          LET r == xf[s]
              w == ConsumeChunk([r EXCEPT !.flag = FALSE, !.cur = ErrItem],
                                r.cur, wok, emit)
          IN  Set(s, [w EXCEPT !.flag = r.flag,
                               !.pc = IF @ = "write" THEN "recv" ELSE @])
    /\ UNCHANGED <<xferFrame, transfers>>

\* After the loop of one file (copy: the final progress event of the file).
FileDone(r) ==
    IF r.kind = "copy" THEN Emit(r, Progress(r.transferred, r.total)) ELSE r

\* rx.recv().await returned None: the reader dropped its sender.  Go on
\* with the next entry of the directory or return Ok.
file_done(s) ==
    /\ Running(s, "recv") /\ xf[s].q = <<>> /\ xf[s].prod = "done"
    /\ LET r == [FileDone(xf[s]) EXCEPT !.prod = "none", !.rx = FALSE] IN
       IF r.fi < Len(r.tree.files)
       THEN Set(s, [r EXCEPT !.pc = "open", !.fi = @ + 1])
       ELSE Set(s, Finish(r, "Ok", "cleanup"))
    /\ UNCHANGED <<xferFrame, transfers>>

\* Mutant of cleanup: the token stays in the table.
cleanup_no_remove(s) ==
    /\ Running(s, "cleanup")
    /\ Set(s, [xf[s] EXCEPT !.pc = "emit"])
    /\ UNCHANGED <<xferFrame, transfers>>

\* "Cleanup": transfers.remove(&tid)
cleanup(s) ==
    /\ Running(s, "cleanup")
    /\ transfers' = Unregister(xf[s].tid)
    /\ Set(s, [xf[s] EXCEPT !.pc = "emit"])
    /\ UNCHANGED xferFrame

\* Mutant of TerminalEvents: a cancelled copy emits transfer-cancelled only.
TerminalEvents_CancelledOnly(kind, res) ==
    IF res = "Ok"
    THEN IF kind = "copy"
         THEN <<Progress(FinalProgress, FinalProgress), Success>>
         ELSE <<Success>>
    ELSE IF kind = "copy" /\ res = "Cancelled"
         THEN <<Cancelled>>
         ELSE <<Failure(res)>>

\* The events emitted from `match result`.
TerminalEvents(kind, res) ==
    IF res = "Ok"
    THEN IF kind = "copy"
         THEN <<Progress(FinalProgress, FinalProgress), Success>>
         ELSE <<Success>>
    ELSE IF kind = "copy" /\ res = "Cancelled"
         THEN <<Cancelled, Failure("Cancelled")>>
         ELSE <<Failure(res)>>

\* `match result`: emit and end the task, dropping the SFTP handles.
emit_result(s) ==
    /\ Running(s, "emit")
    /\ Set(s, [xf[s] EXCEPT !.pc = "done", !.holds = {},
                           !.events = @ \o TerminalEvents(xf[s].kind,
                                                          xf[s].result)])
    /\ UNCHANGED <<xferFrame, transfers>>

\* One step of the task of transfer s or of its reader task.
xfer_step(s) ==
    \/ put_start(s) \/ get_start(s) \/ get_register(s)
    \/ copy_register(s) \/ copy_src(s) \/ copy_size(s) \/ copy_dst(s)
    \/ visit_dir(s) \/ open_file(s)
    \/ prod_open(s) \/ prod_read(s) \/ prod_send(s)
    \/ consume_chunk(s) \/ write_chunk(s) \/ file_done(s)
    \/ cleanup(s) \/ emit_result(s)

xfer_issue(s) ==
    \/ \E id \in ConnIds, tree \in Trees, tid \in Tids :
          sftp_put(s, id, tree, tid)
    \/ \E id \in ConnIds, tree \in Trees, tid \in Tids :
          sftp_get(s, id, tree, tid)
    \/ \E src \in RemoteIds, dst \in RemoteIds, tree \in Trees, tid \in Tids :
          sftp_copy_to_server(s, src, dst, tree, tid)

NextXfer ==
    \/ \E c \in RemoteIds : ssh_connect(c)
    \/ \E c \in RemoteIds : ssh_disconnect_close(c)
    \/ \E c \in RemoteIds : ssh_disconnect_remove(c)
    \/ \E s \in Slots : xfer_issue(s)
    \/ \E tid \in Tids : sftp_cancel_transfer(tid)
    \/ \E s \in Slots : xfer_step(s)

SpecXfer == Init /\ [][NextXfer]_vars

\* The tasks of the runtime are scheduled and every I/O call returns (with
\* a result or an error): each transfer keeps taking steps while it can.
FairSpecXfer == SpecXfer /\ \A s \in Slots : WF_vars(xfer_step(s))

\* Two transfers side by side: any transfer of one small file or of a
\* directory holding one, and next to it a local copy of a file through
\* sftp_put, under the same transfer id or under another one.
PairSlots == {"x1", "x2"}
PairTids == {"T1", "T2"}
PairTrees == {[isDir |-> d, files |-> <<300>>] : d \in BOOLEAN}

pair_first(s) ==
    \/ \E id \in ConnIds, tree \in PairTrees : sftp_put(s, id, tree, "T1")
    \/ \E id \in ConnIds, tree \in PairTrees : sftp_get(s, id, tree, "T1")
    \/ \E src \in RemoteIds, dst \in RemoteIds, tree \in PairTrees :
          sftp_copy_to_server(s, src, dst, tree, "T1")

pair_second(s) ==
    \E tid \in PairTids :
       sftp_put(s, LOCAL_ID, [isDir |-> FALSE, files |-> <<300>>], tid)

NextPair ==
    \/ \E c \in RemoteIds : ssh_connect(c)
    \/ \E c \in RemoteIds : ssh_disconnect_close(c)
    \/ \E c \in RemoteIds : ssh_disconnect_remove(c)
    \/ pair_first("x1")
    \/ pair_second("x2")
    \/ \E tid \in PairTids : sftp_cancel_transfer(tid)
    \/ \E s \in PairSlots : xfer_step(s)

SpecPair == Init /\ [][NextPair]_vars

\* One transfer of a single file of more chunks than the channel holds.
PipeChunks == QueueCap + 1
PipeFile == [isDir |-> FALSE, files |-> <<PipeChunks * ChunkSize>>]

pipe_issue(s) ==
    \/ sftp_put(s, "c1", PipeFile, "T1")
    \/ sftp_get(s, "c1", PipeFile, "T1")
    \/ sftp_copy_to_server(s, "c1", "c1", PipeFile, "T1")

\* xfer_step without the directory branch.
pipe_step(s) ==
    \/ put_start(s) \/ get_start(s) \/ get_register(s)
    \/ copy_register(s) \/ copy_src(s) \/ copy_size(s) \/ copy_dst(s)
    \/ open_file(s)
    \/ prod_open(s) \/ prod_read(s) \/ prod_send(s)
    \/ consume_chunk(s) \/ write_chunk(s) \/ file_done(s)
    \/ cleanup(s) \/ emit_result(s)

\* The connection is made before the transfer is issued.
NextPipe ==
    \/ DOMAIN xf = {} /\ ssh_connect("c1")
    \/ pipe_issue("x1")
    \/ sftp_cancel_transfer("T1")
    \/ pipe_step("x1")

SpecPipe == Init /\ [][NextPipe]_vars

\* The upload of that file alone; its reader task has every step the
\* reader tasks of a download and of a copy have, and the open before them.
drain_step(s) ==
    \/ put_start(s) \/ open_file(s)
    \/ prod_open(s) \/ prod_read(s) \/ prod_send(s)
    \/ consume_chunk(s) \/ write_chunk(s) \/ file_done(s)
    \/ cleanup(s) \/ emit_result(s)

NextDrain ==
    \/ DOMAIN xf = {} /\ ssh_connect("c1")
    \/ sftp_put("x1", "c1", PipeFile, "T1")
    \/ sftp_cancel_transfer("T1")
    \/ drain_step("x1")

\* As FairSpecXfer: the tasks are scheduled and every I/O call returns.
FairSpecDrain == Init /\ [][NextDrain]_vars /\ WF_vars(drain_step("x1"))

(***************************************************************************)
(* Tunnels, as far as ssh_disconnect is concerned                          *)
(***************************************************************************)
TunnelKeys == {"local:15432:5432"}

\* TunnelManager::start_local_forwarding: bind the listener, spawn the accept
\* loop holding the session, store its abort handle under the key.
start_local_forwarding(c, key) ==
    local_listeners' = [k \in DOMAIN local_listeners \cup {key} |->
                           IF k = key THEN c ELSE local_listeners[k]]

\* tunnel_start_local: clone the session out of the registry, start the
\* forwarding.
tunnel_start_local(c, key) ==
    /\ c \in DOMAIN connections
    /\ start_local_forwarding(c, key)
    /\ UNCHANGED <<connections, ptyVars, disc, discReturned, xferVars, others>>

NextDeps ==
    \/ NextXfer
    \/ \E c \in RemoteIds, key \in TunnelKeys : tunnel_start_local(c, key)

SpecDeps == Init /\ [][NextDeps]_vars

(***************************************************************************)
(* Part 3: input, resize and output of a remote terminal (SpecIO)          *)
(*                                                                         *)
(* PtyManager::write and ::resize hand their data to the driver task over  *)
(* two bounded channels; the driver's select! loop takes whichever of      *)
(* channel.wait(), rx.recv() and resize_rx.recv() is ready.  The chunk of  *)
(* the n-th accepted write of a session is the number n.                   *)
(***************************************************************************)
MaxWrites == 3        \* terminal_write calls accepted per session
MaxResizes == 2       \* terminal_resize calls accepted per session

MaxMsgs == 2          \* messages with shell output received per driver
OutputMsgs == {"Data", "ExtendedData"}

InputCap == 32        \* mpsc::channel::<Vec<u8>>(32)
ResizeCap == 4        \* mpsc::channel::<(u16, u16)>(4)
Cols == {80, 120}
IoCalls == {"k1"}     \* one caller and one terminal id are enough for the
IoTerms == {"t1"}     \* queues of a single terminal

ioFrame == <<connections, sessions, nextTask, tc, disc, discReturned,
             xferVars, local_listeners, ssh, cc, ret, agentVars, ext>>

\* PtyManager::write on a remote session, under the sessions lock:
\* tx.send(data).await.  With the driver gone the send fails and the call
\* returns an error; otherwise the call returns Ok once the chunk is queued.
pty_write(t) ==
    /\ t \in DOMAIN sessions /\ sessions[t].kind = "Remote"
    /\ LET d == sessions[t].task
           r == IoOf(d)
       IN  /\ Alive(d)
           /\ r.acc < MaxWrites
           /\ Len(r.rx) < InputCap
           /\ SetIo(d, [r EXCEPT !.rx = Append(@, r.acc + 1),
                                 !.acc = @ + 1])
    /\ UNCHANGED <<ioFrame, tasks>>

\* PtyManager::resize on a remote session: resize_tx.send((cols, rows)).await
pty_resize(t, c) ==
    /\ t \in DOMAIN sessions /\ sessions[t].kind = "Remote"
    /\ LET d == sessions[t].task
           r == IoOf(d)
       IN  /\ Alive(d)
           /\ r.nrz < MaxResizes
           /\ Len(r.resize_rx) < ResizeCap
           /\ SetIo(d, [r EXCEPT !.resize_rx = Append(@, c), !.nrz = @ + 1,
                                 !.req = c])
    /\ UNCHANGED <<ioFrame, tasks>>

\* Mutant of driver_input: a failed channel.data is only logged, as a
\* failed window_change is, and the loop goes on.
driver_input_no_break(d) ==
    /\ Alive(d) /\ IoOf(d).rx # <<>>
    /\ LET r == IoOf(d) IN
       \E ok \in BOOLEAN :
          /\ SetIo(d, [r EXCEPT !.rx = Tail(@),
                                !.sent = IF ok THEN Append(@, Head(r.rx))
                                         ELSE @])
          /\ UNCHANGED tasks
    /\ UNCHANGED ioFrame

\* Driver, branch 2: Some(input) = rx.recv() => channel.data(input); a
\* failed send ends the loop and with it the task.
driver_input(d) ==
    /\ Alive(d) /\ IoOf(d).rx # <<>>
    /\ LET r == IoOf(d) IN
       \E ok \in BOOLEAN :
          IF ok
          THEN /\ SetIo(d, [r EXCEPT !.rx = Tail(@),
                                     !.sent = Append(@, Head(r.rx))])
               /\ UNCHANGED tasks
          ELSE /\ io' = EndDrivers({d})
               /\ tasks' = {tk \in tasks : tk.id # d}
    /\ UNCHANGED ioFrame

\* Mutant of driver_resize: the received resize is applied without the
\* try_recv drain, the later ones stay queued.
driver_resize_no_drain(d) ==
    /\ Alive(d) /\ IoOf(d).resize_rx # <<>>
    /\ LET r == IoOf(d) IN
       \E ok \in BOOLEAN :
          SetIo(d, [r EXCEPT !.resize_rx = Tail(@),
                             !.wc = @ + 1,
                             !.issued = Head(r.resize_rx),
                             !.win = IF ok THEN Head(r.resize_rx) ELSE @])
    /\ UNCHANGED <<ioFrame, tasks>>

\* Driver, branch 3: take a resize, drain the channel keeping the latest,
\* channel.window_change; a failure is only logged.  wc counts the
\* window_change calls issued, issued is the size of the last one.
driver_resize(d) ==
    /\ Alive(d) /\ IoOf(d).resize_rx # <<>>
    /\ LET r == IoOf(d) IN
       \E ok \in BOOLEAN :
          SetIo(d, [r EXCEPT !.resize_rx = <<>>,
                             !.wc = @ + 1,
                             !.issued = r.resize_rx[Len(r.resize_rx)],
                             !.win = IF ok THEN r.resize_rx[Len(r.resize_rx)]
                                     ELSE @])
    /\ UNCHANGED <<ioFrame, tasks>>

\* Driver, branch 1, on a message that carries bytes of the remote shell:
\* the data of a Data message is emitted as terminal-output-{id}; an
\* ExtendedData message falls to the arm `_ => {}` and the loop goes on.
\* (ExitStatus, Eof and None end the task: task_exit.)  The bytes of the
\* n-th such message are the number n; got is what arrived, emitted what
\* was emitted.
driver_output(d, kind) ==
    /\ Alive(d)
    /\ LET r == IoOf(d)
           n == Len(r.got) + 1
       IN  /\ n <= MaxMsgs
           /\ SetIo(d, [r EXCEPT
                  !.got = Append(@, [kind |-> kind, data |-> n]),
                  !.emitted = IF kind = "Data" THEN Append(@, n) ELSE @,
                  !.out = IF kind = "Data" THEN TRUE ELSE @])
    /\ UNCHANGED <<ioFrame, tasks>>

NextIO ==
    \/ \E c \in RemoteIds : ssh_connect(c)
    \/ \E c \in RemoteIds : ssh_disconnect_close(c)
    \/ \E c \in RemoteIds : ssh_disconnect_remove(c)
    \/ \E k \in IoCalls, t \in IoTerms, c \in RemoteIds : terminal_create(k, t, c)
    \/ \E k \in IoCalls : terminal_open_channel(k)
    \/ \E k \in IoCalls : remote_check(k)
    \/ \E k \in IoCalls : remote_request(k)
    \/ \E k \in IoCalls : session_insert(k)
    \/ \E t \in IoTerms : terminal_close(t)
    \/ \E tk \in tasks : task_exit(tk)
    \/ \E t \in IoTerms : pty_write(t)
    \/ \E t \in IoTerms, c \in Cols : pty_resize(t, c)
    \/ \E d \in 1..MaxTasks : driver_input(d)
    \/ \E d \in 1..MaxTasks : driver_resize(d)
    \/ \E d \in 1..MaxTasks : driver_output(d, "Data")

SpecIO == Init /\ [][NextIO]_vars

\* The output side of a remote terminal alone: the driver's branch 1 with
\* both kinds of message that carry output of the shell.
NextOut ==
    \/ \E c \in RemoteIds : ssh_connect(c)
    \/ \E c \in RemoteIds : ssh_disconnect_close(c)
    \/ \E c \in RemoteIds : ssh_disconnect_remove(c)
    \/ \E k \in IoCalls, t \in IoTerms, c \in RemoteIds : terminal_create(k, t, c)
    \/ \E k \in IoCalls : terminal_open_channel(k)
    \/ \E k \in IoCalls : remote_check(k)
    \/ \E k \in IoCalls : remote_request(k)
    \/ \E k \in IoCalls : session_insert(k)
    \/ \E t \in IoTerms : terminal_close(t)
    \/ \E tk \in tasks : task_exit(tk)
    \/ \E d \in 1..MaxTasks, kind \in OutputMsgs : driver_output(d, kind)

SpecOut == Init /\ [][NextOut]_vars

(***************************************************************************)
(* Authentication and the keys of the virtual agent.  Bytes are numbers,   *)
(* strings are sequences of bytes, and a key's public blob is in the SSH   *)
(* wire format: the algorithm name and the key material, each behind its   *)
(* four-byte big-endian length.                                            *)
(***************************************************************************)
MaxAgentKeys == 2     \* public-key authentications in one behaviour

U32(n) == <<(n \div 16777216) % 256, (n \div 65536) % 256,
            (n \div 256) % 256, n % 256>>
Str(b) == U32(Len(b)) \o b

Ed25519Name == <<115, 115, 104, 45, 101, 100, 50, 53, 53, 49, 57>>
RsaName == <<115, 115, 104, 45, 114, 115, 97>>

EdKey == [alg |-> "ed25519", blob |-> Str(Ed25519Name) \o Str(<<7, 9>>)]
RsaKey == [alg |-> "rsa",
           blob |-> Str(RsaName) \o Str(<<1, 0, 1>>) \o Str(<<0, 201, 33>>)]
ConnectKeys == {EdKey, RsaKey}

\* ConnectionConfig.auth_method of the host of a hop; loads tells whether
\* the key file can be read and decoded.
PasswordAuth == [method |-> "Password", key |-> EdKey, loads |-> TRUE]
Auths == {PasswordAuth}
         \cup [method : {"PrivateKey"}, key : ConnectKeys, loads : BOOLEAN]

Loads(a) == a.method = "Password" \/ a.loads

\* authenticate_session on the session of a hop that ended with outcome o
\* (it is not reached when the host could not be connected): a key that
\* loads is pushed to the agent's keys, then offered to the server.
Authenticate(o, a) ==
    LET reached == o # "ConnectFailed" /\ a.method = "PrivateKey" /\ a.loads
    IN
    /\ reached => Len(agent_keys) < MaxAgentKeys
    /\ agent_keys' = IF reached
                     THEN Append(agent_keys, a.key)
                     ELSE agent_keys
    /\ accepted' = IF reached /\ o = "Ok"
                   THEN accepted \cup {a.key}
                   ELSE accepted

(***************************************************************************)
(* Part 4: connecting through jump hosts, and the commands on a connection *)
(* id (SpecConn)                                                           *)
(*                                                                         *)
(* A configuration is a chain of n hosts: hop 1 is the configuration with  *)
(* no jump_host (the outermost jump host, or the target itself when n = 1) *)
(* and hop n is the target.  SshManager::connect recurses down to hop 1    *)
(* before it awaits anything, so the hops are taken in this order.         *)
(***************************************************************************)
Outcomes == {"Ok", "ConnectFailed", "AuthFailed"}
connFrame == <<ptyVars, disc, xferVars, local_listeners, io, ext>>

\* A session object is named after the caller that made it, its hop, and
\* which of the caller's chains it belongs to: a caller has at most one
\* chain in the registry per id and one in the making.
GenFree(k, g) == ~\E x \in DOMAIN ssh : x[1] = k /\ x[3] = g
FreshGen(k) ==
    LET gens == 0..Cardinality(AllRemoteIds) IN
    IF \E g \in gens : GenFree(k, g)
    THEN CHOOSE g \in gens :
            GenFree(k, g) /\ \A g2 \in gens : GenFree(k, g2) => g <= g2
    ELSE 0
FreshSid(k) == <<k, cc[k].hop, cc[k].gen>>

RegSessions(c) == {x \in DOMAIN ssh : <<"registry", c>> \in ssh[x].refs}

\* What a connect call leaves in ret when it returns r.
ConnectReturn(k, r) ==
    [cmd |-> IF cc[k].test THEN "ssh_test_connection" ELSE "ssh_connect",
     id |-> cc[k].id, res |-> r]

\* Mutant of AfterHop: the call goes on to the next hop whatever the outcome.
AfterHop_ignore_failure(k, o, new) ==
    LET h == cc[k].hop IN
    [cc[k] EXCEPT !.tried = Append(@, o),
                  !.sid = new,
                  !.hop = IF h = cc[k].n THEN h ELSE h + 1,
                  !.pc = IF h < cc[k].n THEN "hop"
                         ELSE IF cc[k].test THEN "test"
                         ELSE "insert"]

\* The call after its current hop ended with outcome o: an error is
\* returned at once (the ? operators and the Err of authenticate_session),
\* otherwise the next hop is taken with the new session as its jump
\* session, or the established session is handed to the command.
AfterHop(k, o, new) ==
    LET h == cc[k].hop IN
    IF o # "Ok" THEN IdleConnect
    ELSE [cc[k] EXCEPT !.tried = Append(@, o),
                       !.sid = new,
                       !.hop = IF h = cc[k].n THEN h ELSE h + 1,
                       !.pc = IF h < cc[k].n THEN "hop"
                              ELSE IF cc[k].test THEN "test"
                              ELSE "insert"]

\* ssh_connect or ssh_test_connection is called with a chain of n hosts.
ssh_connect_call(k, c, n, test) ==
    /\ cc[k].pc = "idle"
    /\ cc' = [cc EXCEPT ![k] =
                 [pc |-> "hop", id |-> c, test |-> test, n |-> n, hop |-> 1,
                  gen |-> FreshGen(k), sid |-> NoSid, tried |-> <<>>]]
    /\ UNCHANGED <<connections, discReturned, connFrame, agentVars, ssh, ret>>

\* Mutant of connect_hop: the handler of the tunnelled session does not
\* keep the jump session.
connect_hop_no_keep_alive(k, o, a) ==
    LET h    == cc[k].hop
        prev == cc[k].sid
        new  == FreshSid(k)
    IN
    /\ cc[k].pc = "hop"
    /\ o = "Ok" => Loads(a)
    /\ Authenticate(o, a)
    /\ IF o = "Ok"
       THEN /\ ssh' = Collect(
                  [x \in DOMAIN ssh \cup {new} |->
                      IF x = new
                      THEN [id |-> cc[k].id, hop |-> h, jump |-> prev,
                            up |-> TRUE, refs |-> {<<"call", k>>}]
                      ELSE IF x = prev
                      THEN [ssh[x] EXCEPT !.refs = @ \ {<<"call", k>>}]
                      ELSE ssh[x]])
            /\ ret' = ret
       ELSE /\ ssh' = Drop(<<"call", k>>)
            /\ ret' = ConnectReturn(k, o)
    /\ cc' = [cc EXCEPT ![k] = AfterHop(k, o, new)]
    /\ UNCHANGED <<connections, discReturned, connFrame>>

\* One hop of SshManager::connect: reach the host (directly, or by a
\* direct-tcpip channel on the session of the hop before and a handshake
\* over it) and authenticate.  The session of the hop before moves into the
\* new session's handler; an error return drops whatever the call held.
connect_hop(k, o, a) ==
    LET h    == cc[k].hop
        prev == cc[k].sid
        new  == FreshSid(k)
    IN
    /\ cc[k].pc = "hop"
    /\ o = "Ok" => Loads(a)
    /\ Authenticate(o, a)
    /\ IF o = "Ok"
       THEN /\ ssh' = Collect(
                  [x \in DOMAIN ssh \cup {new} |->
                      IF x = new
                      THEN [id |-> cc[k].id, hop |-> h, jump |-> prev,
                            up |-> TRUE, refs |-> {<<"call", k>>}]
                      ELSE IF x = prev
                      THEN [ssh[x] EXCEPT !.refs = (@ \ {<<"call", k>>})
                                                 \cup {<<"handler", new>>}]
                      ELSE ssh[x]])
            /\ ret' = ret
       ELSE /\ ssh' = Drop(<<"call", k>>)
            /\ ret' = ConnectReturn(k, o)
    /\ cc' = [cc EXCEPT ![k] = AfterHop(k, o, new)]
    /\ UNCHANGED <<connections, discReturned, connFrame>>

\* Mutant of connect_insert: the entry it replaces keeps its session.
connect_insert_keep_old(k) ==
    LET c == cc[k].id IN
    /\ cc[k].pc = "insert"
    /\ \E sftpOk \in BOOLEAN :
          /\ connections' = [x \in DOMAIN connections \cup {c} |->
                                IF x = c
                                THEN [sftp |-> sftpOk]
                                ELSE connections[x]]
    /\ ssh' = Collect(
          [x \in DOMAIN ssh |->
              IF x = cc[k].sid
              THEN [ssh[x] EXCEPT !.refs = (@ \ {<<"call", k>>})
                                         \cup {<<"registry", c>>}]
              ELSE ssh[x]])
    /\ discReturned' = [discReturned EXCEPT ![c] = FALSE]
    /\ cc' = [cc EXCEPT ![k] = IdleConnect]
    /\ ret' = ConnectReturn(k, "Ok")
    /\ UNCHANGED <<connFrame, agentVars>>

\* ssh_connect after SshManager::connect returned a session: the SFTP
\* subsystem is started (the entry is stored whether or not that works) and
\* the ConnectionHandle goes into the map, where it replaces, and so drops,
\* an entry already stored under the id.
connect_insert(k) ==
    LET c == cc[k].id IN
    /\ cc[k].pc = "insert"
    /\ \E sftpOk \in BOOLEAN :
          /\ connections' = [x \in DOMAIN connections \cup {c} |->
                                IF x = c
                                THEN [sftp |-> sftpOk]
                                ELSE connections[x]]
    /\ ssh' = Collect(
          [x \in DOMAIN ssh |->
              IF x = cc[k].sid
              THEN [ssh[x] EXCEPT !.refs = (@ \ {<<"call", k>>})
                                         \cup {<<"registry", c>>}]
              ELSE [ssh[x] EXCEPT !.refs = @ \ {<<"registry", c>>}]])
    /\ discReturned' = [discReturned EXCEPT ![c] = FALSE]
    /\ cc' = [cc EXCEPT ![k] = IdleConnect]
    /\ ret' = ConnectReturn(k, "Ok")
    /\ UNCHANGED <<connFrame, agentVars>>

\* ssh_test_connection after SshManager::connect returned a session: it
\* runs a command on it and drops it; the registry is not involved.
test_finish(k) ==
    /\ cc[k].pc = "test"
    /\ ssh' = Drop(<<"call", k>>)
    /\ cc' = [cc EXCEPT ![k] = IdleConnect]
    /\ ret' = ConnectReturn(k, "Ok")
    /\ UNCHANGED <<connections, discReturned, connFrame, agentVars>>

\* The peer of the session registered under c closes it (or the transport
\* under it goes away).
peer_close(c) ==
    /\ \E x \in RegSessions(c) : ssh[x].up
    /\ ssh' = [x \in DOMAIN ssh |->
                  IF x \in RegSessions(c)
                  THEN [ssh[x] EXCEPT !.up = FALSE]
                  ELSE ssh[x]]
    /\ UNCHANGED <<connections, discReturned, connFrame, agentVars, cc, ret>>

\* ssh_exec: the local branch runs a process; otherwise the entry is looked
\* up and a channel opened on its session, all under the registry lock.
ssh_exec(c) ==
    /\ \E r \in {"Ok", "ExitNonZero", "ConnectionNotFound", "ChannelError"} :
          /\ r = "ConnectionNotFound" <=>
                (c # LOCAL_ID /\ c \notin DOMAIN connections)
          /\ r = "ChannelError" <=>
                /\ c \in DOMAIN connections
                /\ \E x \in RegSessions(c) : ~ssh[x].up
          /\ ret' = [cmd |-> "ssh_exec", id |-> c, res |-> r]
    /\ UNCHANGED <<connections, discReturned, connFrame, agentVars, ssh, cc>>

\* Concurrent ssh_connect and ssh_disconnect commands.
NextConn ==
    \/ \E k \in Calls, c \in RemoteIds, n \in 1..MaxHops :
          ssh_connect_call(k, c, n, FALSE)
    \/ \E k \in Calls, o \in Outcomes : connect_hop(k, o, PasswordAuth)
    \/ \E k \in Calls : connect_insert(k)
    \/ \E c \in RemoteIds : ssh_disconnect_close(c)
    \/ \E c \in RemoteIds : ssh_disconnect_remove(c)

SpecConn == Init /\ [][NextConn]_vars

\* One caller's connects and test connects, the peer closing the registered
\* session, and ssh_exec.
NextPeer ==
    \/ \E k \in IoCalls, c \in RemoteIds, n \in 1..MaxHops, test \in BOOLEAN :
          ssh_connect_call(k, c, n, test)
    \/ \E k \in IoCalls, o \in Outcomes : connect_hop(k, o, PasswordAuth)
    \/ \E k \in IoCalls : connect_insert(k)
    \/ \E k \in IoCalls : test_finish(k)
    \/ \E c \in RemoteIds : ssh_disconnect_close(c)
    \/ \E c \in RemoteIds : ssh_disconnect_remove(c)
    \/ \E c \in RemoteIds : peer_close(c)
    \/ \E c \in ConnIds : ssh_exec(c)

SpecPeer == Init /\ [][NextPeer]_vars

\* One caller's successful connects and its terminals on two connection
\* ids, and ssh_disconnect of the first id.
NextFrame ==
    \/ \E k \in IoCalls, c \in AllRemoteIds, n \in 1..MaxHops :
          ssh_connect_call(k, c, n, FALSE)
    \/ \E k \in IoCalls : connect_hop(k, "Ok", PasswordAuth)
    \/ \E k \in IoCalls : connect_insert(k)
    \/ \E c \in RemoteIds : ssh_disconnect_close(c)
    \/ \E c \in RemoteIds : ssh_disconnect_remove(c)
    \/ \E k \in IoCalls, t \in IoTerms, c \in AllRemoteIds :
          terminal_create(k, t, c)
    \/ \E k \in IoCalls : terminal_open_channel(k)
    \/ \E k \in IoCalls : remote_check(k)
    \/ \E k \in IoCalls : remote_request(k)
    \/ \E k \in IoCalls : session_insert(k)

SpecFrame == Init /\ [][NextFrame]_vars

\* One caller's connects and test connects with passwords and private keys.
NextAgent ==
    \/ \E k \in IoCalls, c \in RemoteIds, n \in 1..MaxHops, test \in BOOLEAN :
          ssh_connect_call(k, c, n, test)
    \/ \E k \in IoCalls, o \in Outcomes, a \in Auths : connect_hop(k, o, a)
    \/ \E k \in IoCalls : connect_insert(k)
    \/ \E k \in IoCalls : test_finish(k)

SpecAgent == Init /\ [][NextAgent]_vars

\* An fs_* command on a remote id: every one of them gets the SFTP handle
\* through get_sftp before it does anything, and the local branch needs no
\* connection.
fs_op(c) ==
    /\ ret' = [cmd |-> "fs", id |-> c,
               res |-> IF c = LOCAL_ID THEN "Ok" ELSE get_sftp(c)]
    /\ UNCHANGED <<connections, discReturned, connFrame, agentVars, ssh, cc>>

\* The commands that take a connection id, each up to the point where it
\* returns to its caller.
NextCmd ==
    \/ \E c \in RemoteIds : ssh_connect(c)
    \/ \E c \in RemoteIds : ssh_disconnect_close(c)
    \/ \E c \in RemoteIds : ssh_disconnect_remove(c)
    \/ \E c \in ConnIds : ssh_exec(c)
    \/ \E c \in ConnIds : fs_op(c)
    \/ \E k \in IoCalls, t \in IoTerms, c \in ConnIds : terminal_create(k, t, c)
    \/ \E c \in RemoteIds, key \in TunnelKeys : tunnel_start_local(c, key)
    \/ \E s \in Slots : xfer_issue(s)

SpecCmd == Init /\ [][NextCmd]_vars

(***************************************************************************)
(* Part 5: the virtual agent's protocol handler (SpecProto)                *)
(***************************************************************************)
MaxRequests == 2      \* requests read from one agent channel

SSH_AGENT_FAILURE == 5
SSH_AGENTC_REQUEST_IDENTITIES == 11
SSH_AGENT_IDENTITIES_ANSWER == 12
SSH_AGENTC_SIGN_REQUEST == 13
SSH_AGENT_SIGN_RESPONSE == 14
WindowLen == 11

Comment == <<118, 105, 114, 116, 117, 97, 108, 45, 97, 103, 101, 110, 116>>
RsaHashName == <<114, 115, 97, 45, 115, 104, 97, 50, 45, 50, 53, 54>>

\* An RSA key whose modulus happens to contain the bytes "ssh-ed25519".
OddRsaKey == [alg |-> "rsa",
              blob |-> Str(RsaName) \o Str(<<1, 0, 1>>)
                       \o Str(<<0, 201>> \o Ed25519Name \o <<33>>)]
ProtoKeys == ConnectKeys \cup {OddRsaKey}

RECURSIVE SeqsUpToOver(_, _)
SeqsUpToOver(S, n) ==
    IF n = 0 THEN {<<>>}
    ELSE LET shorter == SeqsUpToOver(S, n - 1) IN
         shorter \cup {Append(q, x) : q \in shorter, x \in S}

Drop4(cur) == SubSeq(cur, 5, Len(cur))
BE(b) == b[1] * 16777216 + b[2] * 65536 + b[3] * 256 + b[4]

\* read_u32 and read_string, the parsing helpers of handle_agent_request
read_u32(cur) ==
    IF Len(cur) < 4 THEN [ok |-> FALSE, val |-> 0, rest |-> cur]
    ELSE [ok |-> TRUE, val |-> BE(cur), rest |-> Drop4(cur)]

read_string(cur) ==
    IF Len(cur) < 4 THEN [ok |-> FALSE, val |-> <<>>, rest |-> cur]
    ELSE LET n    == BE(cur)
             rest == Drop4(cur)
         IN IF Len(rest) < n
            THEN [ok |-> FALSE, val |-> <<>>, rest |-> rest]
            ELSE [ok |-> TRUE, val |-> SubSeq(rest, 1, n),
                  rest |-> SubSeq(rest, n + 1, Len(rest))]

\* blob.windows(11).any(|w| w == b"ssh-ed25519")
HasEd25519(blob) ==
    \E i \in 1..(Len(blob) - WindowLen + 1) :
        SubSeq(blob, i, i + WindowLen - 1) = Ed25519Name

RECURSIVE Identities(_)
\* write_string(blob), write_string("virtual-agent") for every key kept
Identities(keys) ==
    IF keys = <<>> THEN <<>>
    ELSE (IF HasEd25519(Head(keys).blob)
          THEN Str(Head(keys).blob) \o Str(Comment)
          ELSE <<>>) \o Identities(Tail(keys))

\* The answer to REQUEST_IDENTITIES: the count is first written as the
\* number of all keys and then overwritten with the number of keys kept.
identities_answer(keys) ==
    LET buf   == <<SSH_AGENT_IDENTITIES_ANSWER>> \o U32(Len(keys))
                 \o Identities(keys)
        count == Len(SelectSeq(keys, LAMBDA k : HasEd25519(k.blob)))
    IN  <<buf[1]>> \o U32(count) \o SubSeq(buf, 6, Len(buf))

\* sign_detached, abstracted: the signature bytes depend on the key
\* material and on the data.
sign_detached(key, data) == <<key.blob[Len(key.blob)]>> \o data

signature_blob(key, data) ==
    IF key.alg = "ed25519"
    THEN Str(Ed25519Name) \o Str(sign_detached(key, data))
    ELSE Str(RsaHashName) \o Str(sign_detached(key, data))

\* Mutant of sign_response: the flags are not required.
sign_response_no_flags(keys, cur) ==
    LET b == read_string(cur)
        d == read_string(b.rest)
        hits == SelectSeq(keys, LAMBDA k : k.blob = b.val)
    IN  IF b.ok /\ d.ok /\ hits # <<>>
        THEN <<SSH_AGENT_SIGN_RESPONSE>>
             \o Str(signature_blob(Head(hits), d.val))
        ELSE <<SSH_AGENT_FAILURE>>

\* The answer to SIGN_REQUEST: string key_blob, string data, u32 flags; the
\* first key with that blob signs.
sign_response(keys, cur) ==
    LET b == read_string(cur)
        d == read_string(b.rest)
        f == read_u32(d.rest)
        hits == SelectSeq(keys, LAMBDA k : k.blob = b.val)
    IN  IF b.ok /\ d.ok /\ f.ok /\ hits # <<>>
        THEN <<SSH_AGENT_SIGN_RESPONSE>>
             \o Str(signature_blob(Head(hits), d.val))
        ELSE <<SSH_AGENT_FAILURE>>

handle_agent_request(keys, payload) ==
    IF payload = <<>> THEN <<SSH_AGENT_FAILURE>>
    ELSE IF payload[1] = SSH_AGENTC_REQUEST_IDENTITIES
         THEN identities_answer(keys)
    ELSE IF payload[1] = SSH_AGENTC_SIGN_REQUEST
         THEN sign_response(keys, Tail(payload))
    ELSE <<SSH_AGENT_FAILURE>>

\* Request payloads a server may send on the agent channel.
SignData == <<4, 2>>
SignRequest(blob) ==
    <<SSH_AGENTC_SIGN_REQUEST>> \o Str(blob) \o Str(SignData) \o U32(0)
UnknownBlob == Str(Ed25519Name) \o Str(<<8, 8>>)
Payloads ==
    { <<>>,
      <<SSH_AGENTC_REQUEST_IDENTITIES>>,
      <<SSH_AGENTC_REQUEST_IDENTITIES, 0>>,
      <<1>>,
      <<SSH_AGENTC_SIGN_REQUEST>>,
      <<SSH_AGENTC_SIGN_REQUEST, 0, 0>>,
      <<SSH_AGENTC_SIGN_REQUEST>> \o U32(9) \o <<1>>,
      <<SSH_AGENTC_SIGN_REQUEST>> \o Str(EdKey.blob),
      <<SSH_AGENTC_SIGN_REQUEST>> \o Str(EdKey.blob) \o Str(SignData),
      SignRequest(EdKey.blob),
      SignRequest(RsaKey.blob),
      SignRequest(UnknownBlob) }

protoFrame == <<connections, discReturned, ptyVars, disc, xferVars,
                local_listeners, io, ssh, cc, ret, agentVars, tunVars,
                detected_os, dir, migVars, lockVars>>

Pending == Len(agent_chan.requests) > Len(agent_chan.responses)

\* The loop of the agent channel's task: read the length and the payload of
\* a request ...
agent_read(p) ==
    /\ ~Pending
    /\ Len(agent_chan.requests) < MaxRequests
    /\ agent_chan' = [agent_chan EXCEPT !.requests = Append(@, p)]
    /\ UNCHANGED protoFrame

\* ... and write the length and the payload of its response.
agent_respond ==
    /\ Pending
    /\ agent_chan' = [agent_chan EXCEPT !.responses =
          Append(@, handle_agent_request(agent_keys,
                        agent_chan.requests[Len(agent_chan.requests)]))]
    /\ UNCHANGED protoFrame

\* The agent serves a channel with any keys that authentications left in it.
InitProto ==
    /\ InitBase
    /\ agent_keys \in SeqsUpToOver(ProtoKeys, MaxAgentKeys)
    /\ detected_os = [c \in AllRemoteIds |-> TRUE]

NextProto ==
    \/ \E p \in Payloads : agent_read(p)
    \/ agent_respond

SpecProto == InitProto /\ [][NextProto]_vars

(***************************************************************************)
(* Part 6: saved tunnels and their status (SpecTunnel)                     *)
(*                                                                         *)
(* tunnel_start and tunnel_stop look the tunnel up in tunnels.json, call   *)
(* the TunnelManager and emit tunnel:status-change; tunnel_list and        *)
(* tunnel_get_all read the manager's tables.  The manager keeps a local    *)
(* listener under "local:{local_port}:{remote_port}" and a remote forward  *)
(* under its remote port.                                                  *)
(***************************************************************************)
MaxTunnelCalls == 3   \* tunnel_start / tunnel_stop commands in one behaviour

SavedTunnels ==
    { [id |-> "a", connection_id |-> "c1", tunnel_type |-> "local",
       local_port |-> 15432, remote_port |-> 5432,
       bind_address |-> "127.0.0.1"],
      [id |-> "b", connection_id |-> "c1", tunnel_type |-> "local",
       local_port |-> 15432, remote_port |-> 5432,
       bind_address |-> "0.0.0.0"],
      [id |-> "r", connection_id |-> "c1", tunnel_type |-> "remote",
       local_port |-> 3000, remote_port |-> 9000,
       bind_address |-> "0.0.0.0"] }
TunnelIds == {t.id : t \in SavedTunnels} \cup {"z"}

Saved == tunnels_json.tunnels
Find(id) == CHOOSE t \in Saved : t.id = id

\* format!("local:{}:{}", t.local_port, t.remote_port)
LocalKey(t) ==
    "local:" \o ToString(t.local_port) \o ":" \o ToString(t.remote_port)

tunFrame == <<connections, discReturned, ptyVars, disc, xferVars, io, ssh,
              cc, agentVars, agent_chan, detected_os, dir, migVars,
              lockVars>>

TunnelReturn(cmd, id, r) == [id |-> id, cmd |-> cmd, res |-> r]

\* tunnel_save: the tunnel replaces the saved tunnel of its id or is added;
\* the file is created if it is missing.
tunnel_save(t) ==
    /\ tunnels_json' = [exists |-> TRUE,
                        tunnels |-> {x \in Saved : x.id # t.id} \cup {t}]
    /\ ret' = TunnelReturn("tunnel_save", t.id, "Ok")
    /\ UNCHANGED <<tunFrame, local_listeners, remote_forwards, events,
                   tcalls, started>>

\* TunnelManager::start_remote_forwarding: tcpip-forward is requested and
\* the remote port recorded.
start_remote_forwarding(t) ==
    remote_forwards' = remote_forwards \cup {t.remote_port}

\* TunnelManager::stop_tunnel: the listener task is aborted and its entry
\* removed, or the remote forward is cancelled and its entry removed.
stop_tunnel(t) ==
    IF t.tunnel_type = "local"
    THEN /\ local_listeners' = [k \in DOMAIN local_listeners \ {LocalKey(t)}
                                   |-> local_listeners[k]]
         /\ UNCHANGED remote_forwards
    ELSE /\ remote_forwards' = remote_forwards \ {t.remote_port}
         /\ UNCHANGED local_listeners

\* Mutant of tunnel_start: a failure of the manager is only returned.
tunnel_start_silent_error(id, ok) ==
    /\ tcalls < MaxTunnelCalls
    /\ tcalls' = tcalls + 1
    /\ IF ~tunnels_json.exists
       THEN /\ ret' = TunnelReturn("tunnel_start", id, "TunnelsFileNotFound")
            /\ UNCHANGED <<local_listeners, remote_forwards, events, started>>
       ELSE IF \A t \in Saved : t.id # id
       THEN /\ ret' = TunnelReturn("tunnel_start", id, "TunnelNotFound")
            /\ UNCHANGED <<local_listeners, remote_forwards, events, started>>
       ELSE IF Find(id).connection_id \notin DOMAIN connections
       THEN /\ ret' = TunnelReturn("tunnel_start", id, "ConnectionNotFound")
            /\ UNCHANGED <<local_listeners, remote_forwards, events, started>>
       ELSE IF ok
       THEN /\ IF Find(id).tunnel_type = "local"
               THEN /\ start_local_forwarding(Find(id).connection_id,
                                              LocalKey(Find(id)))
                    /\ UNCHANGED remote_forwards
               ELSE /\ start_remote_forwarding(Find(id))
                    /\ UNCHANGED local_listeners
            /\ events' = Append(events, <<id, "active">>)
            /\ started' = started \cup {id}
            /\ ret' = TunnelReturn("tunnel_start", id, "Ok")
       ELSE /\ ret' = TunnelReturn("tunnel_start", id, "Error")
            /\ UNCHANGED <<local_listeners, remote_forwards, events, started>>
    /\ UNCHANGED <<tunFrame, tunnels_json>>

\* tunnel_start(id); ok tells whether the manager could start the
\* forwarding (the listener was bound, the server granted the forward).
tunnel_start(id, ok) ==
    /\ tcalls < MaxTunnelCalls
    /\ tcalls' = tcalls + 1
    /\ IF ~tunnels_json.exists
       THEN /\ ret' = TunnelReturn("tunnel_start", id, "TunnelsFileNotFound")
            /\ UNCHANGED <<local_listeners, remote_forwards, events, started>>
       ELSE IF \A t \in Saved : t.id # id
       THEN /\ ret' = TunnelReturn("tunnel_start", id, "TunnelNotFound")
            /\ UNCHANGED <<local_listeners, remote_forwards, events, started>>
       ELSE IF Find(id).connection_id \notin DOMAIN connections
       THEN /\ ret' = TunnelReturn("tunnel_start", id, "ConnectionNotFound")
            /\ UNCHANGED <<local_listeners, remote_forwards, events, started>>
       ELSE IF ok
       THEN /\ IF Find(id).tunnel_type = "local"
               THEN /\ start_local_forwarding(Find(id).connection_id,
                                              LocalKey(Find(id)))
                    /\ UNCHANGED remote_forwards
               ELSE /\ start_remote_forwarding(Find(id))
                    /\ UNCHANGED local_listeners
            /\ events' = Append(events, <<id, "active">>)
            /\ started' = started \cup {id}
            /\ ret' = TunnelReturn("tunnel_start", id, "Ok")
       ELSE /\ events' = Append(events, <<id, "error">>)
            /\ ret' = TunnelReturn("tunnel_start", id, "Error")
            /\ UNCHANGED <<local_listeners, remote_forwards, started>>
    /\ UNCHANGED <<tunFrame, tunnels_json>>

\* tunnel_stop(id); ok tells whether the manager could stop the tunnel.
tunnel_stop(id, ok) ==
    /\ tcalls < MaxTunnelCalls
    /\ tcalls' = tcalls + 1
    /\ IF ~tunnels_json.exists
       THEN /\ ret' = TunnelReturn("tunnel_stop", id, "NothingToStop")
            /\ UNCHANGED <<local_listeners, remote_forwards, events, started>>
       ELSE IF \A t \in Saved : t.id # id
       THEN /\ ret' = TunnelReturn("tunnel_stop", id, "TunnelKeyNotFound")
            /\ UNCHANGED <<local_listeners, remote_forwards, events, started>>
       ELSE IF ok
       THEN /\ stop_tunnel(Find(id))
            /\ events' = Append(events, <<id, "stopped">>)
            /\ started' = started \ {id}
            /\ ret' = TunnelReturn("tunnel_stop", id, "Ok")
       ELSE /\ events' = Append(events, <<id, "error">>)
            /\ ret' = TunnelReturn("tunnel_stop", id, "Error")
            /\ UNCHANGED <<local_listeners, remote_forwards, started>>
    /\ UNCHANGED <<tunFrame, tunnels_json>>

\* The status tunnel_list and tunnel_get_all inject into a saved tunnel.
is_active(t) ==
    IF t.tunnel_type = "local"
    THEN LocalKey(t) \in DOMAIN local_listeners
    ELSE t.remote_port \in remote_forwards

Status(T) ==
    [id \in {t.id : t \in T} |->
        IF is_active(CHOOSE t \in T : t.id = id) THEN "active" ELSE "stopped"]

tunnel_list(c) ==
    /\ ret' = TunnelReturn("tunnel_list", c,
                           Status({t \in Saved : t.connection_id = c}))
    /\ UNCHANGED <<tunFrame, local_listeners, tunVars>>

tunnel_get_all ==
    /\ ret' = TunnelReturn("tunnel_get_all", "all", Status(Saved))
    /\ UNCHANGED <<tunFrame, local_listeners, tunVars>>

\* One caller connects; tunnels are saved, started, stopped and listed.
NextTunnel ==
    \/ \E k \in IoCalls, c \in RemoteIds : ssh_connect_call(k, c, 1, FALSE)
    \/ \E k \in IoCalls : connect_hop(k, "Ok", PasswordAuth)
    \/ \E k \in IoCalls : connect_insert(k)
    \/ \E t \in SavedTunnels : tunnel_save(t)
    \/ \E id \in TunnelIds, ok \in BOOLEAN : tunnel_start(id, ok)
    \/ \E id \in TunnelIds, ok \in BOOLEAN : tunnel_stop(id, ok)
    \/ \E c \in RemoteIds : tunnel_list(c)
    \/ tunnel_get_all

SpecTunnel == Init /\ [][NextTunnel]_vars

(***************************************************************************)
(* Part 7: remote delete and copy with a server-side fast path (SpecFs)    *)
(*                                                                         *)
(* fs_delete, fs_copy and fs_copy_batch first try rm -rf / cp -r on a      *)
(* fresh channel when the connection's OS was detected, and otherwise, or  *)
(* when that did not work, use SFTP.  What the remote side does is an      *)
(* input: how the fast path ends and what the SFTP operation returns.      *)
(***************************************************************************)
FastOutcomes == {"OpenFailed", "ExecFailed", "Exit0", "ExitNonZero", "NoExit"}
SftpResults == {"Ok", "Err"}

fsFrame == <<connections, discReturned, ptyVars, disc, xferVars,
             local_listeners, io, ssh, cc, agentVars, ext>>

\* should_optimize and a session: the id is registered with a detected OS.
should_optimize(c) == c \in DOMAIN connections /\ detected_os[c]

\* get_sftp followed by the SFTP implementation, which returns s.
SftpFallback(c, s) ==
    IF c \notin DOMAIN connections THEN "ConnectionNotFound"
    ELSE IF ~connections[c].sftp THEN "SftpNotInitialized"
    ELSE s

FsReturn(cmd, c, result, fast, sftp) ==
    [id |-> c, cmd |-> cmd,
     res |-> [result |-> result, fast |-> fast, sftp |-> sftp]]

\* Mutant of FastOrSftp: a command that exits with a non-zero status is the
\* command's result.
FastOrSftp_return_exit(cmd, c, f, s) ==
    IF should_optimize(c) /\ f = "Exit0"
    THEN FsReturn(cmd, c, "Ok", f, "NotRun")
    ELSE IF should_optimize(c) /\ f = "ExitNonZero"
    THEN FsReturn(cmd, c, "Err", f, "NotRun")
    ELSE FsReturn(cmd, c, SftpFallback(c, s),
                  IF should_optimize(c) THEN f ELSE "NotTried",
                  SftpFallback(c, s))

\* The body shared by fs_delete and fs_copy on a remote id: Ok(()) is
\* returned on exit status 0 of the command, everything else falls through
\* to get_sftp and the SFTP implementation.
FastOrSftp(cmd, c, f, s) ==
    IF should_optimize(c) /\ f = "Exit0"
    THEN FsReturn(cmd, c, "Ok", f, "NotRun")
    ELSE FsReturn(cmd, c, SftpFallback(c, s),
                  IF should_optimize(c) THEN f ELSE "NotTried",
                  SftpFallback(c, s))

fs_delete(c, f, s) ==
    /\ ret' = FastOrSftp("fs_delete", c, f, s)
    /\ UNCHANGED fsFrame

fs_copy(c, f, s) ==
    /\ ret' = FastOrSftp("fs_copy", c, f, s)
    /\ UNCHANGED fsFrame

\* The operations of a batch: for each, whether its `cp -r` succeeds.
MaxOps == 2
BatchOps == SeqsUpTo(BOOLEAN, MaxOps)

\* The exit status of `cp -r 'a' 'b'; cp -r 'c' 'd'; ...`: a list joined
\* with "; " runs every command and exits with the status of the last one
\* (the empty list with 0).
JoinedExit(ops) ==
    IF ops = <<>> \/ ops[Len(ops)] THEN "Exit0" ELSE "ExitNonZero"

\* fs_copy_batch on a remote id: a channel that cannot be opened and an
\* exec that cannot be started are returned with `?`; exit status 0 is
\* Ok(()); any other end of the command falls back to copying the
\* operations one by one over SFTP.  copied records which operations the
\* command copied.
fs_copy_batch(c, f, s, ops) ==
    /\ f \in {"Exit0", "ExitNonZero"} => f = JoinedExit(ops)
    /\ LET r == IF should_optimize(c) /\ f = "OpenFailed"
                THEN FsReturn("fs_copy_batch", c, "FailedToOpenChannel", f,
                              "NotRun")
                ELSE IF should_optimize(c) /\ f = "ExecFailed"
                THEN FsReturn("fs_copy_batch", c, "ExecFailed", f, "NotRun")
                ELSE FastOrSftp("fs_copy_batch", c, f, s)
       IN  ret' = [r EXCEPT !.res = [result |-> r.res.result,
                                     fast |-> r.res.fast,
                                     sftp |-> r.res.sftp,
                                     copied |-> ops]]
    /\ UNCHANGED fsFrame

\* Hosts with and without a detectable OS.
InitFs ==
    /\ InitBase
    /\ agent_keys = <<>>
    /\ detected_os \in [AllRemoteIds -> BOOLEAN]

NextFs ==
    \/ \E k \in IoCalls, c \in RemoteIds : ssh_connect_call(k, c, 1, FALSE)
    \/ \E k \in IoCalls : connect_hop(k, "Ok", PasswordAuth)
    \/ \E k \in IoCalls : connect_insert(k)
    \/ \E c \in RemoteIds, f \in FastOutcomes, s \in SftpResults :
          fs_delete(c, f, s)
    \/ \E c \in RemoteIds, f \in FastOutcomes, s \in SftpResults :
          fs_copy(c, f, s)
    \/ \E c \in RemoteIds, f \in FastOutcomes, s \in SftpResults,
          ops \in BatchOps :
          fs_copy_batch(c, f, s, ops)

SpecFs == InitFs /\ [][NextFs]_vars

(***************************************************************************)
(* Part 8: listing a directory (SpecList)                                  *)
(*                                                                         *)
(* A directory is the sequence of entries read_dir yields, in the order it *)
(* yields them; an entry has a name (bytes) and a mode with the file type  *)
(* bits.                                                                   *)
(***************************************************************************)
MaxEntries == 3       \* entries of a listed directory

S_IFMT == 61440       \* 0o170000
S_IFDIR == 16384      \* 0o040000
DirMode == S_IFDIR + 493       \* 0o040755
FileMode == 2 * S_IFDIR + 420   \* 0o100644
SocketMode == 3 * S_IFDIR + 493 \* 0o140755
Modes == {DirMode, FileMode, SocketMode}

Dot == <<46>>
DotDot == <<46, 46>>
Names == {Dot, DotDot, <<97>>, <<66>>, <<97, 98>>}
DirEntries == [name : Names, mode : Modes]

\* metadata.is_dir(): the file type bits say directory.
is_dir_local(e) ==
    (e.mode \div 4096) % 16 = (S_IFDIR \div 4096)

\* (perms & 0o040000) != 0
is_dir_remote(e) == (e.mode \div S_IFDIR) % 2 = 1

FileEntry(e, isDir) ==
    [name |-> e.name, type |-> IF isDir THEN "d" ELSE "-"]

RECURSIVE StrCmp(_, _)
\* a.name.cmp(&b.name): bytes are compared from the left, a proper prefix
\* is less.
StrCmp(a, b) ==
    IF a = <<>> /\ b = <<>> THEN 0
    ELSE IF a = <<>> THEN -1
    ELSE IF b = <<>> THEN 1
    ELSE IF Head(a) < Head(b) THEN -1
    ELSE IF Head(a) > Head(b) THEN 1
    ELSE StrCmp(Tail(a), Tail(b))

\* Mutant of Compare: names only.
Compare_names_only(a, b) == StrCmp(a.name, b.name)

\* The comparator of sort_by: directories first, then by name.
Compare(a, b) ==
    IF a.type = "d" /\ b.type # "d" THEN -1
    ELSE IF a.type # "d" /\ b.type = "d" THEN 1
    ELSE StrCmp(a.name, b.name)

RECURSIVE Insert(_, _)
Insert(sorted, e) ==
    IF sorted = <<>> THEN <<e>>
    ELSE IF Compare(e, Head(sorted)) < 0 THEN <<e>> \o sorted
    ELSE <<Head(sorted)>> \o Insert(Tail(sorted), e)

RECURSIVE sort_by(_)
\* Vec::sort_by, a stable sort.
sort_by(entries) ==
    IF entries = <<>> THEN <<>>
    ELSE Insert(sort_by(SubSeq(entries, 1, Len(entries) - 1)),
                entries[Len(entries)])

RECURSIVE Entries(_, _)
\* The loop over the entries read; remote skips "." and "..".
Entries(d, remote) ==
    IF d = <<>> THEN <<>>
    ELSE IF remote /\ Head(d).name \in {Dot, DotDot}
         THEN Entries(Tail(d), remote)
    ELSE <<FileEntry(Head(d), IF remote THEN is_dir_remote(Head(d))
                              ELSE is_dir_local(Head(d)))>>
         \o Entries(Tail(d), remote)

list_local(d) == sort_by(Entries(d, FALSE))
list_remote(d) == sort_by(Entries(d, TRUE))

ListReturn(c, result, d, entries) ==
    [id |-> c, cmd |-> "fs_list",
     res |-> [result |-> result, dir |-> d, entries |-> entries]]

\* The directory gets an entry (a file is created, or "." and ".." are
\* among what the server lists); no name is there twice.
dir_add(e) ==
    /\ Len(dir) < MaxEntries
    /\ \A i \in 1..Len(dir) : dir[i].name # e.name
    /\ dir' = Append(dir, e)
    /\ UNCHANGED <<connections, discReturned, ptyVars, disc, xferVars,
                   local_listeners, io, ssh, cc, ret, agentVars, agent_chan,
                   tunVars, detected_os, migVars, lockVars>>

\* fs_list of the directory; std::fs::read_dir never yields "." and "..".
fs_list(c) ==
    /\ c = LOCAL_ID => \A i \in 1..Len(dir) : dir[i].name \notin {Dot, DotDot}
    /\ ret' = IF c = LOCAL_ID
              THEN ListReturn(c, "Ok", dir, list_local(dir))
              ELSE IF SftpFallback(c, "Ok") # "Ok"
              THEN ListReturn(c, SftpFallback(c, "Ok"), dir, <<>>)
              ELSE ListReturn(c, "Ok", dir, list_remote(dir))
    /\ UNCHANGED <<connections, discReturned, ptyVars, disc, xferVars,
                   local_listeners, io, ssh, cc, agentVars, ext>>

NextList ==
    \/ \E k \in IoCalls, c \in RemoteIds : ssh_connect_call(k, c, 1, FALSE)
    \/ \E k \in IoCalls : connect_hop(k, "Ok", PasswordAuth)
    \/ \E k \in IoCalls : connect_insert(k)
    \/ \E e \in DirEntries : dir_add(e)
    \/ \E c \in ConnIds : fs_list(c)

SpecList == Init /\ [][NextList]_vars

(***************************************************************************)
(* Part 9: moving the key files into the data directory (SpecMigrate)      *)
(*                                                                         *)
(* A path is a directory and a file name.  The directories are two outside *)
(* the data directory ("ssh", "work"), the data directory ("data"), its    *)
(* keys directory ("keys"), and a symbolic link to the data directory      *)
(* ("datalink").  A file name is a sequence of parts: the name a key is    *)
(* migrated to is the hash of its old path followed by its old name.       *)
(***************************************************************************)
NoPath == [dir |-> "none", file |-> <<>>]       \* private_key_path: None
EmptyPath == [dir |-> "", file |-> <<>>]        \* private_key_path: ""
KeyPaths == [dir : {"ssh", "work", "data", "datalink"},
             file : {<<"id_a">>}]
UserPaths == {NoPath, EmptyPath} \cup KeyPaths
Contents == {"A"}
SavedConns == 1..2

\* canonicalize(): the link is resolved if the file exists, else the path
\* is taken as it is.
Resolve(p) == IF p.dir = "datalink" THEN [p EXCEPT !.dir = "data"] ELSE p
Exists(p, fs) == Resolve(p) \in DOMAIN fs
canonicalize(p, fs) == IF Exists(p, fs) THEN Resolve(p) ELSE p

\* src_path_canonical.starts_with(&data_dir_canonical)
InDataDir(p) == p.dir \in {"data", "keys"}

\* keys_dir.join(format!("{:x}_{}", hash(path), filename))
DestPath(p) == [dir |-> "keys", file |-> <<p.dir>> \o p.file]

WriteFile(fs, p, f) ==
    [x \in DOMAIN fs \cup {p} |-> IF x = p THEN f ELSE fs[x]]

\* Mutant of MigrateConn: a path inside the data directory is not skipped.
MigrateConn_no_skip(st, i) ==
    LET p    == st.paths[i]
        dest == DestPath(p)
    IN  IF p \in {NoPath, EmptyPath} THEN st
        ELSE IF ~Exists(p, st.files) THEN st
        ELSE IF p = dest THEN st
        ELSE IF dest \in DOMAIN st.files
        THEN [st EXCEPT !.paths[i] = dest, !.changed = TRUE]
        ELSE IF st.files[Resolve(p)].readable
        THEN [st EXCEPT
                 !.files = WriteFile(@, dest,
                              [data |-> st.files[Resolve(p)].data,
                               readable |-> TRUE]),
                 !.paths[i] = dest,
                 !.count = @ + 1,
                 !.changed = TRUE]
        ELSE st

\* One turn of the loop over saved_data.connections.
MigrateConn(st, i) ==
    LET p    == st.paths[i]
        dest == DestPath(p)
    IN  IF p \in {NoPath, EmptyPath} THEN st
        ELSE IF InDataDir(canonicalize(p, st.files)) THEN st
        ELSE IF ~Exists(p, st.files) THEN st
        ELSE IF p = dest THEN st
        ELSE IF dest \in DOMAIN st.files
        THEN [st EXCEPT !.paths[i] = dest, !.changed = TRUE]
        ELSE IF st.files[Resolve(p)].readable
        THEN [st EXCEPT
                 !.files = WriteFile(@, dest,
                              [data |-> st.files[Resolve(p)].data,
                               readable |-> TRUE]),
                 !.paths[i] = dest,
                 !.count = @ + 1,
                 !.changed = TRUE]
        ELSE st

RECURSIVE MigrateLoop(_, _)
MigrateLoop(st, i) ==
    IF i > Len(st.paths) THEN st
    ELSE MigrateLoop(MigrateConn(st, i), i + 1)

MigrateReturn(r) == [id |-> "all", cmd |-> "ssh_migrate_all_keys", res |-> r]

migFrame == <<connections, discReturned, ptyVars, disc, xferVars,
              local_listeners, io, ssh, cc, agentVars, agent_chan, tunVars,
              detected_os, dir, lockVars>>

\* ssh_migrate_all_keys: nothing without connections.json; else every key
\* outside the data directory is copied into keys/ and its connection is
\* pointed at the copy; connections.json is rewritten if a path changed.
ssh_migrate_all_keys ==
    LET st == MigrateLoop([paths |-> connections_json.paths,
                           files |-> files, count |-> 0,
                           changed |-> FALSE], 1)
    IN
    /\ fresh' = IF fresh < 2 THEN fresh + 1 ELSE fresh
    /\ IF ~connections_json.exists
       THEN /\ ret' = MigrateReturn("Ok0")
            /\ UNCHANGED <<connections_json, files>>
       ELSE /\ files' = st.files
            /\ IF st.changed /\ connections_json.writable
               THEN /\ connections_json' =
                          [connections_json EXCEPT !.paths = st.paths]
                    /\ ret' = MigrateReturn(<<"Ok", st.count>>)
               ELSE /\ UNCHANGED connections_json
                    /\ ret' = MigrateReturn(
                                 IF st.changed THEN <<"Err", st.count>>
                                 ELSE <<"Ok", st.count>>)
    /\ UNCHANGED migFrame

\* The user saves a connection with its key path; connections.json is
\* created with this connection if it is missing.
connection_save(i, p) ==
    /\ i <= Len(connections_json.paths) + 1
    /\ connections_json' =
          [connections_json EXCEPT
              !.exists = TRUE,
              !.paths = IF i <= Len(@) THEN [@ EXCEPT ![i] = p]
                        ELSE Append(@, p)]
    /\ fresh' = 0
    /\ UNCHANGED <<migFrame, files, ret>>

\* connections.json is made read-only or writable.
connections_chmod(w) ==
    /\ connections_json.exists
    /\ connections_json' = [connections_json EXCEPT !.writable = w]
    /\ fresh' = 0
    /\ UNCHANGED <<migFrame, files, ret>>

\* A key file is written outside the keys directory.
key_write(p, data, r) ==
    /\ p.dir # "datalink"
    /\ files' = WriteFile(files, p, [data |-> data, readable |-> r])
    /\ fresh' = 0
    /\ UNCHANGED <<migFrame, connections_json, ret>>

NextMigrate ==
    \/ ssh_migrate_all_keys
    \/ \E i \in SavedConns, p \in UserPaths : connection_save(i, p)
    \/ \E w \in BOOLEAN : connections_chmod(w)
    \/ \E p \in KeyPaths, data \in Contents, r \in BOOLEAN :
          key_write(p, data, r)

SpecMigrate == Init /\ [][NextMigrate]_vars

(***************************************************************************)
(* Part 10: the locks of the two maps (SpecLock)                           *)
(*                                                                         *)
(* A tokio Mutex guard lives to the end of its scope.  A call that locks a *)
(* map and then awaits inside the guard's scope keeps the map locked until *)
(* the awaited operation returns.                                          *)
(***************************************************************************)
lockFrame == <<connections, sessions, tasks, nextTask, disc, discReturned,
               xferVars, local_listeners, io, ssh, cc, agentVars, agent_chan,
               tunVars, detected_os, dir, migVars>>

Free(m) == held[m] = "free"

\* What channel.wait() yields to ssh_exec before it yields None: Data and
\* ExtendedData with their bytes (the message's position stands for them),
\* ExitStatus with its code, and Eof for every other kind of message.
MaxExecMsgs == 2
ExecMsgs == {[kind |-> "Data", code |-> 0],
             [kind |-> "ExtendedData", code |-> 0],
             [kind |-> "ExitStatus", code |-> 0],
             [kind |-> "ExitStatus", code |-> 1],
             [kind |-> "Eof", code |-> 0]}
ExecStreams == SeqsUpTo(ExecMsgs, MaxExecMsgs)

\* The loop `while let Some(msg) = channel.wait().await` of ssh_exec from
\* message i on, with `let mut exit_status = 0` before it.  received is a
\* ghost: the loop was left through the ExitStatus arm.
RECURSIVE exec_wait(_, _, _)
exec_wait(msgs, i, acc) ==
    IF i > Len(msgs) THEN acc
    ELSE IF msgs[i].kind = "Data"
    THEN exec_wait(msgs, i + 1, [acc EXCEPT !.stdout = Append(@, i)])
    ELSE IF msgs[i].kind = "ExtendedData"
    THEN exec_wait(msgs, i + 1, [acc EXCEPT !.stderr = Append(@, i)])
    ELSE IF msgs[i].kind = "ExitStatus"
    THEN [acc EXCEPT !.exit_status = msgs[i].code, !.received = TRUE]
    ELSE exec_wait(msgs, i + 1, acc)

\* `if exit_status == 0 { Ok(stdout) } else { Err("Remote command failed
\* (Exit n): stderr") }`
ExecReturn(msgs) ==
    LET w == exec_wait(msgs, 1, [stdout |-> <<>>, stderr |-> <<>>,
                                 exit_status |-> 0, received |-> FALSE])
    IN  [result |-> IF w.exit_status = 0 THEN "Ok" ELSE "ExitNonZero",
         out |-> IF w.exit_status = 0 THEN w.stdout ELSE w.stderr,
         code |-> w.exit_status, received |-> w.received]

\* channel_open_session or channel.exec failed: `?`
ChannelError == [result |-> "ChannelError", out |-> <<>>, code |-> 0,
                 received |-> FALSE]
ExecResults == {ChannelError} \cup {ExecReturn(msgs) : msgs \in ExecStreams}

\* ssh_exec on a remote id: state.connections.lock().await, then the lookup.
\* For an id that is not there the call returns; for one that is, it
\* goes on to open a channel, run the command and wait for its exit status
\* with `connections` still in scope.
ssh_exec_lock(k, c) ==
    /\ lk[k] = "idle"
    /\ Free("connections")
    /\ IF c \in DOMAIN connections
       THEN /\ held' = [held EXCEPT !.connections = k]
            /\ lk' = [lk EXCEPT ![k] = "exec"]
            /\ UNCHANGED ret
       ELSE /\ ret' = [id |-> c, cmd |-> "ssh_exec",
                       res |-> [ChannelError EXCEPT
                                   !.result = "ConnectionNotFound"]]
            /\ UNCHANGED <<held, lk>>
    /\ UNCHANGED <<lockFrame, tc>>

\* The command has run (or the channel failed): ssh_exec returns and the
\* guard is dropped.
ssh_exec_return(k, r) ==
    /\ lk[k] = "exec"
    /\ held' = [held EXCEPT !.connections = "free"]
    /\ lk' = [lk EXCEPT ![k] = "idle"]
    /\ ret' = [id |-> k, cmd |-> "ssh_exec", res |-> r]
    /\ UNCHANGED <<lockFrame, tc>>

\* PtyManager::write: self.sessions.lock().await, then the lookup.  For a
\* remote session the call goes on to tx.send(..).await on the bounded
\* channel of the driver with `sessions` still in scope.
write_lock(k, t) ==
    /\ lk[k] = "idle"
    /\ Free("sessions")
    /\ IF t \in DOMAIN sessions /\ sessions[t].kind = "Remote"
       THEN /\ held' = [held EXCEPT !.sessions = k]
            /\ lk' = [lk EXCEPT ![k] = "send"]
            /\ UNCHANGED ret
       ELSE /\ ret' = [id |-> t, cmd |-> "terminal_write",
                       res |-> IF t \in DOMAIN sessions THEN "Ok"
                               ELSE "SessionNotFound"]
            /\ UNCHANGED <<held, lk>>
    /\ UNCHANGED <<lockFrame, tc>>

\* The send has completed (the queue had room, or the driver is gone).
write_return(k, ok) ==
    /\ lk[k] = "send"
    /\ held' = [held EXCEPT !.sessions = "free"]
    /\ lk' = [lk EXCEPT ![k] = "idle"]
    /\ ret' = [id |-> k, cmd |-> "terminal_write",
               res |-> IF ok THEN "Ok" ELSE "SendFailed"]
    /\ UNCHANGED <<lockFrame, tc>>

\* create_remote_session finds the terminal id in the map: inside the scope
\* of the guard it closes the channel it was given.
duplicate_lock(k) ==
    /\ tc[k].pc = "r_check"
    /\ tc[k].term \in DOMAIN sessions
    /\ Free("sessions")
    /\ held' = [held EXCEPT !.sessions = k]
    /\ tc' = [tc EXCEPT ![k] = [@ EXCEPT !.pc = "r_close"]]
    /\ UNCHANGED <<lockFrame, lk, ret>>

\* channel.close() has returned: Ok(()) is returned and the guard dropped.
duplicate_close(k) ==
    /\ tc[k].pc = "r_close"
    /\ held' = [held EXCEPT !.sessions = "free"]
    /\ tc' = [tc EXCEPT ![k] = Returned("Ok", "closed")]
    /\ UNCHANGED <<lockFrame, lk, ret>>

\* Connecting and creating a remote terminal, each step taking the lock of
\* the map it uses for the time of the step.
NextLock ==
    \/ \E c \in RemoteIds : Free("connections") /\ ssh_connect(c)
    \/ \E k \in IoCalls, t \in IoTerms, c \in RemoteIds :
          Free("connections") /\ terminal_create(k, t, c)
    \/ \E k \in IoCalls : terminal_open_channel(k)
    \/ \E k \in IoCalls :
          /\ Free("sessions")
          /\ tc[k].term \notin DOMAIN sessions
          /\ remote_check(k)
    \/ \E k \in IoCalls : remote_request(k)
    \/ \E k \in IoCalls : Free("sessions") /\ session_insert(k)
    \/ \E k \in IoCalls : duplicate_lock(k)
    \/ \E k \in IoCalls : duplicate_close(k)
    \/ \E k \in Calls, c \in RemoteIds : ssh_exec_lock(k, c)
    \/ \E k \in Calls, r \in ExecResults : ssh_exec_return(k, r)
    \/ \E k \in Calls, t \in IoTerms : write_lock(k, t)
    \/ \E k \in Calls, ok \in BOOLEAN : write_return(k, ok)

SpecLock == Init /\ [][NextLock]_vars

(***************************************************************************)
(* Claims about the transfer engine                                        *)
(***************************************************************************)
Registered(s) ==
    xf[s].tid \in DOMAIN transfers /\ transfers[xf[s].tid] = s

ProgressEvents(s) == SelectSeq(xf[s].events, LAMBDA e : e.ev = "progress")
TerminalSeq(s) ==
    SelectSeq(xf[s].events, LAMBDA e : e.ev \in {"success", "error"})
LastOf(q) == q[Len(q)]

\* The transfer moved its bytes through the chunk pipeline (everything but
\* sftp_put to the `local` id, which is std::fs::copy).
Pipelined(s) == ~(xf[s].kind = "put" /\ xf[s].src = LOCAL_ID)

\* C2: at the moment ssh_disconnect(id) removes the registry entry, no
\* in-flight transfer registered in the cancellation table still uses that
\* connection's SFTP handle, and no tunnel started on that connection is
\* still in the tunnel manager's tables.
C2_DependentsClosedAtRemove ==
    [][\A c \in RemoteIds :
          (c \in DOMAIN connections /\ c \notin DOMAIN connections')
          => /\ \A s \in DOMAIN xf : ~(c \in xf[s].holds /\ Registered(s))
             /\ \A k \in DOMAIN local_listeners : local_listeners[k] # c]_vars

\* C3: every issued transfer eventually emits exactly one terminal event
\* (transfer-success or transfer-error), never both and never two, as the
\* last event of the task; a transfer that ended by cancellation emits
\* transfer-error "Cancelled".
C3_OneTerminalEvent ==
    /\ [](\A s \in DOMAIN xf :
             /\ Len(TerminalSeq(s)) <= 1
             /\ (xf[s].pc = "done" <=> Len(TerminalSeq(s)) = 1)
             /\ (xf[s].pc = "done" =>
                    /\ LastOf(xf[s].events).ev \in {"success", "error"}
                    /\ (xf[s].result = "Ok" <=>
                            LastOf(xf[s].events) = Success)
                    /\ (xf[s].result = "Cancelled" =>
                            LastOf(xf[s].events) = Failure("Cancelled"))))
    /\ \A s \in Slots :
          (s \in DOMAIN xf) ~> (s \in DOMAIN xf /\ xf[s].pc = "done")

\* C3 witness: a copy that ended by cancellation has emitted its events.
C3_Witness ==
    \E s \in DOMAIN xf :
        /\ xf[s].pc = "done" /\ xf[s].kind = "copy"
        /\ xf[s].result = "Cancelled"
        /\ ChunksWritten(xf[s]) >= 1

\* C4: a sftp_cancel_transfer(tid) issued after the issuing command has
\* returned and before the transfer's terminal event finds tid in the
\* table and sets that transfer's flag.
C4_CancelNeverLost ==
    \A s \in DOMAIN xf : cancelReq[s] => xf[s].flag

\* C5: if the flag is true when the consumer takes a chunk, that chunk and
\* every later one stay unwritten, and the transfer ends with transfer-error
\* "Cancelled", never with transfer-success.
C5_CancelledChunkNotWritten ==
    \A s \in DOMAIN xf :
        xf[s].cancelAt # NotTaken =>
            /\ ChunksWritten(xf[s]) = xf[s].cancelAt
            /\ xf[s].result = "Cancelled"
            /\ \A i \in 1..Len(xf[s].events) : xf[s].events[i] # Success
            /\ (xf[s].pc = "done" =>
                   LastOf(xf[s].events) = Failure("Cancelled"))

\* C5 witness: a transfer that had written a chunk took the next one with
\* the flag set and has ended.
C5_Witness ==
    \E s \in DOMAIN xf :
        /\ xf[s].cancelAt # NotTaken /\ xf[s].cancelAt >= 1
        /\ xf[s].pc = "done"

\* C6: the transfer-progress events of a transfer are non-decreasing in
\* `transferred`, for put, get and copy alike.
C6_ProgressMonotone ==
    \A s \in DOMAIN xf :
        LET p == ProgressEvents(s) IN
        \A i \in 1..Len(p) : \A j \in i..Len(p) :
            p[i].transferred <= p[j].transferred

\* C7: when a transfer ends with transfer-success, the last
\* transfer-progress event emitted for it reports the sum of the source
\* file sizes.
C7_FinalProgressIsTotal ==
    \A s \in DOMAIN xf :
        (xf[s].pc = "done" /\ xf[s].result = "Ok" /\ ProgressEvents(s) # <<>>)
        => LastOf(ProgressEvents(s)).transferred = SumSeq(xf[s].tree.files)

\* A successful sftp_put of one non-empty file.
PutFileDone(s) ==
    /\ xf[s].kind = "put" /\ xf[s].pc = "done" /\ xf[s].result = "Ok"
    /\ ~xf[s].tree.isDir /\ xf[s].tree.files[1] > 0

\* C8 as claimed: first a progress event (0, size), then at least one
\* progress event strictly between 0 and total, then exactly one
\* transfer-success.
C8_PutEventOrder ==
    \A s \in DOMAIN xf :
        PutFileDone(s) =>
            LET e == xf[s].events
                size == xf[s].tree.files[1]
            IN  /\ Len(e) >= 3
                /\ e[1] = Progress(0, size)
                /\ \A i \in 2..(Len(e) - 1) : e[i].ev = "progress"
                /\ \E i \in 2..(Len(e) - 1) :
                      0 < e[i].transferred /\ e[i].transferred < e[i].total
                /\ e[Len(e)] = Success

\* C8 as amended: a successful sftp_put of a non-empty file over SFTP emits
\* first a progress event (0, size), then zero or more progress events with
\* 0 < transferred <= total = size, non-decreasing, then exactly one
\* transfer-success and nothing after it.
C8_PutEventOrderAmended ==
    \A s \in DOMAIN xf :
        (PutFileDone(s) /\ xf[s].src # LOCAL_ID) =>
            LET e == xf[s].events
                size == xf[s].tree.files[1]
            IN  /\ Len(e) >= 2
                /\ e[1] = Progress(0, size)
                /\ \A i \in 2..(Len(e) - 1) :
                      /\ e[i].ev = "progress"
                      /\ 0 < e[i].transferred
                      /\ e[i].transferred <= e[i].total
                      /\ e[i].total = size
                      /\ e[i - 1].transferred <= e[i].transferred
                /\ e[Len(e)] = Success

\* C8 witness: a successful put of a two-chunk file that reported a
\* progress strictly between 0 and total.
C8_Witness ==
    \E s \in DOMAIN xf :
        /\ PutFileDone(s) /\ xf[s].src # LOCAL_ID
        /\ \E i \in 2..(Len(xf[s].events) - 1) :
              /\ 0 < xf[s].events[i].transferred
              /\ xf[s].events[i].transferred < xf[s].events[i].total

RECURSIVE Contiguous(_, _)
\* The ranges in `chs` follow one another without gap or overlap from `at`.
Contiguous(chs, at) ==
    IF chs = <<>> THEN TRUE
    ELSE /\ Head(chs)[1] = at
         /\ Head(chs)[2] > 0
         /\ Contiguous(Tail(chs), at + Head(chs)[2])

\* The chunks written are exactly the bytes [0, size) of the source, in order.
Preserved(chs, size) ==
    /\ Contiguous(chs, 0)
    /\ SumSeq([j \in 1..Len(chs) |-> chs[j][2]]) = size

C1_NoSessionAfterDisconnect ==
    \A c \in RemoteIds :
        discReturned[c] =>
            \A t \in DOMAIN sessions : sessions[t].connection_id # c

\* C11: for every terminal id at most one producer task (local reader or
\* remote driver) is alive, and every live task is the task of the entry
\* of its terminal id in the session map, or of a create call that has
\* spawned it and is about to insert that entry.
C11_SingleProducer ==
    /\ \A a, b \in tasks : a.term = b.term => a = b
    /\ \A tk \in tasks :
          \/ /\ tk.term \in DOMAIN sessions
             /\ sessions[tk.term].task = tk.id
          \/ \E k \in Calls : tc[k].pc = "insert" /\ tc[k].task = tk.id

\* The sequence 1, 2, .., n: the chunks of the first n accepted writes.
FirstWrites(n) == [i \in 1..n |-> i]

\* C12 as claimed: what the driver sent on the SSH channel is the chunks of
\* the successful terminal_write calls in submission order, none
\* duplicated or reordered, and none dropped: when the driver ends, nothing
\* that a terminal_write had queued is left unsent.
C12_WritesSentInOrder ==
    [][\A d \in DOMAIN io :
          /\ io[d].sent = FirstWrites(Len(io[d].sent))
          /\ Len(io[d].sent) <= io[d].acc
          /\ (Alive(d) /\ ~Alive(d)' => io[d].rx = <<>>)]_vars

\* C12 as amended: what the driver sent is, in submission order and without
\* duplicate or gap, an initial part of the accepted chunks, and while the
\* driver is alive every accepted chunk is either sent or still queued in
\* order behind the sent ones.
C12_WritesSentInOrderAmended ==
    \A d \in DOMAIN io :
        /\ io[d].sent = FirstWrites(Len(io[d].sent))
        /\ Len(io[d].sent) <= io[d].acc
        /\ (Alive(d) => io[d].sent \o io[d].rx = FirstWrites(io[d].acc))

\* C12 witness: a driver has sent several chunks with a resize and an
\* output in between and more input still queued.
C12_Witness ==
    \E d \in DOMAIN io :
        /\ Alive(d)
        /\ Len(io[d].sent) >= 2 /\ io[d].rx # <<>>
        /\ io[d].win # 0 /\ io[d].out

\* C13: a remote session whose driver has ended is no longer treated as a
\* duplicate: whenever create_remote_session returns on the duplicate path,
\* the driver of the remote session it found is still alive.
C13_EndedSessionIsNotDuplicate ==
    [][\A k \in Calls :
          (/\ tc[k].pc = "r_check"
           /\ tc'[k] = Returned("Ok", "closed")
           /\ sessions[tc[k].term].kind = "Remote")
          => \E tk \in tasks : tk.id = sessions[tc[k].term].task]_vars

\* C10: a create_local_session / create_remote_session that finds its
\* term_id in the session map is a no-op: the map, the tasks and the task
\* counter are unchanged, nothing is spawned, the call returns Ok, and a
\* remote create has closed the channel that was opened for it.
C10_DuplicateCreateIsNoOp ==
    [][\A k \in Calls :
          (/\ tc[k].pc \in {"l_check", "r_check"}
           /\ tc[k].term \in DOMAIN sessions
           /\ tc'[k] # tc[k])
          => /\ sessions' = sessions
             /\ tasks' = tasks
             /\ nextTask' = nextTask
             /\ tc'[k].pc = "done"
             /\ tc'[k].res = "Ok"
             /\ tc'[k].task = NoTask
             /\ (tc[k].pc = "r_check" => tc'[k].chan = "closed")
             /\ (tc[k].pc = "l_check" => tc'[k].chan = "none")]_vars

\* C10 witness: a remote and a local duplicate create have both returned Ok
\* without spawning, while the session they collided with is in the map.
C10_Witness ==
    /\ DOMAIN sessions # {}
    /\ \E k1, k2 \in Calls :
          /\ tc[k1] = Returned("Ok", "closed")
          /\ tc[k2] = Returned("Ok", "none")

\* C14: the registry holds at most one ActiveConnection per connection id,
\* whatever the interleaving of ssh_connect and ssh_disconnect: exactly one
\* session object is owned by the registry under an id that has an entry,
\* and none under an id that has no entry.
C14_OneConnectionPerId ==
    \A c \in RemoteIds :
        Cardinality(RegSessions(c)) = IF c \in DOMAIN connections THEN 1 ELSE 0

\* C14 witness: a connect for c has stored its entry and the other caller's
\* connect for the same id, authenticated, is about to store its own.
C14_Witness ==
    \E c \in RemoteIds, k \in Calls :
        /\ c \in DOMAIN connections
        /\ ret = [cmd |-> "ssh_connect", id |-> c, res |-> "Ok"]
        /\ cc[k].pc = "insert"
        /\ cc[k].id = c
        /\ RegSessions(c) # {}

\* The sessions the registry owns, with their state.
Registry == [c \in RemoteIds |-> {<<x, ssh[x]>> : x \in RegSessions(c)}]

AllOk(o) == \A i \in 1..Len(o) : o[i] = "Ok"

\* C15: the registry follows the per-id state machine.  An entry (and the
\* session it owns) is stored for id only by the connect for id whose every
\* hop connected and authenticated, and that connect returns success; a
\* connect that fails leaves the registry exactly as it was; when
\* ssh_disconnect(id) returns, id has no entry.
C15_RegistryStateMachine ==
    [][/\ \A c \in RemoteIds :
             (/\ c \in DOMAIN connections'
              /\ \/ c \notin DOMAIN connections
                 \/ connections'[c] # connections[c]
                 \/ RegSessions(c)' # RegSessions(c))
             => \E k \in Calls :
                   /\ cc[k].pc = "insert"
                   /\ cc[k].id = c
                   /\ Len(cc[k].tried) = cc[k].n
                   /\ AllOk(cc[k].tried)
                   /\ cc'[k].pc = "idle"
                   /\ RegSessions(c)' = {cc[k].sid}
                   /\ ret' = [cmd |-> "ssh_connect", id |-> c, res |-> "Ok"]
       /\ \A k \in Calls :
             (cc[k].pc = "hop" /\ cc'[k].pc = "idle")
             => /\ ret'.res \in {"ConnectFailed", "AuthFailed"}
                /\ connections' = connections
                /\ Registry' = Registry
       /\ \A c \in RemoteIds :
             (disc[c] = "remove" /\ disc'[c] = "idle")
             => /\ c \notin DOMAIN connections'
                /\ RegSessions(c)' = {}]_vars

\* C15 witness: id is registered, a later connect for it has just failed,
\* and ssh_disconnect(id) is between closing the terminals and removing the
\* entry.
C15_Witness ==
    \E c \in RemoteIds :
        /\ c \in DOMAIN connections
        /\ RegSessions(c) # {}
        /\ ret = [cmd |-> "ssh_connect", id |-> c, res |-> "AuthFailed"]
        /\ disc[c] = "remove"

\* C19: a connect through a chain of hosts takes the hops outermost first,
\* each one only after every hop before it connected and authenticated; it
\* returns success exactly when all hops of the chain did, and the first
\* hop that fails makes it return the error at once.
C19_JumpChainAllOrNothing ==
    [][\A k \in Calls :
          /\ (cc[k].pc = "hop" /\ cc'[k] # cc[k])
             => /\ cc[k].hop = Len(cc[k].tried) + 1
                /\ AllOk(cc[k].tried)
                /\ \/ /\ cc'[k].pc = "hop"
                      /\ cc'[k].hop = cc[k].hop + 1
                      /\ cc[k].hop < cc[k].n
                      /\ cc'[k].tried = Append(cc[k].tried, "Ok")
                   \/ /\ cc'[k].pc = "insert"
                      /\ cc[k].hop = cc[k].n
                      /\ cc'[k].tried = Append(cc[k].tried, "Ok")
                   \/ /\ cc'[k].pc = "idle"
                      /\ ret'.res \in {"ConnectFailed", "AuthFailed"}
          /\ (cc[k].pc # "idle" /\ cc'[k].pc = "idle")
             => (ret'.res = "Ok" <=>
                    /\ cc[k].pc \in {"insert", "test"}
                    /\ Len(cc[k].tried) = cc[k].n
                    /\ AllOk(cc[k].tried))]_vars

\* C19 witness: the connect through the longest chain has passed every hop
\* and holds the target session, after a connect that failed.
C19_Witness ==
    \E k \in Calls :
        /\ cc[k].pc = "insert"
        /\ cc[k].n = MaxHops
        /\ Len(cc[k].tried) = MaxHops
        /\ ret.res = "ConnectFailed"

\* C20: a session established through a jump host keeps its jump session
\* alive: while the target session exists, its jump session exists and is
\* referred to by the target's handler.
C20_JumpKeptAlive ==
    \A x \in DOMAIN ssh :
        /\ ssh[x].hop > 1 <=> ssh[x].jump # NoSid
        /\ ssh[x].jump # NoSid
           => /\ ssh[x].jump \in DOMAIN ssh
              /\ <<"handler", x>> \in ssh[ssh[x].jump].refs

\* C20 witness: a target session reached through a jump host is owned by
\* the registry, no connect is in progress, and the handler's reference is
\* the only one left to the jump session.
C20_Witness ==
    /\ \A k \in Calls : cc[k].pc = "idle"
    /\ \E c \in RemoteIds : \E x \in RegSessions(c) :
          /\ ssh[x].jump # NoSid
          /\ ssh[x].jump \in DOMAIN ssh
          /\ ssh[ssh[x].jump].refs = {<<"handler", x>>}

Absent(c) == c # LOCAL_ID /\ c \notin DOMAIN connections

\* C16: no command that takes a connection id succeeds for an id that is
\* neither `local` nor in the registry: ssh_exec and the fs_* operations
\* return connection-not-found, terminal_create does not go on to open a
\* terminal, a tunnel is not started, a transfer is not accepted, and
\* ssh_disconnect does not return Ok.
C16_AbsentIdIsNotFound ==
    [][/\ (ret' # ret /\ ret'.cmd \in {"ssh_exec", "fs"} /\ Absent(ret'.id))
          => ret'.res = "ConnectionNotFound"
       /\ \A k \in Calls :
             (tc[k].pc \in {"idle", "done"} /\ tc'[k] # tc[k])
             => \/ tc'[k].res = "ConnectionNotFound"
                \/ ~Absent(tc'[k].conn)
       /\ \A key \in DOMAIN local_listeners' \ DOMAIN local_listeners :
             ~Absent(local_listeners'[key])
       /\ \A s \in DOMAIN xf' \ DOMAIN xf :
             ~Absent(xf'[s].src) /\ ~Absent(xf'[s].dst)
       /\ \A c \in RemoteIds :
             (disc[c] = "remove" /\ disc'[c] = "idle") => ~Absent(c)]_vars

\* C17: an operation on an id whose registered session was closed by the
\* peer reports the failure and takes the id out of the registry.
C17_PeerCloseRemovesEntry ==
    [][\A c \in RemoteIds :
          (/\ c \in DOMAIN connections
           /\ \E x \in RegSessions(c) : ~ssh[x].up
           /\ ret' # ret
           /\ ret'.cmd = "ssh_exec"
           /\ ret'.id = c)
          => /\ ret'.res = "ChannelError"
             /\ c \notin DOMAIN connections']_vars

\* The session objects made for connection id c, jump sessions included.
SessionsOf(c) == {<<x, ssh[x]>> : x \in {y \in DOMAIN ssh : ssh[y].id = c}}

\* C18: a step of ssh_disconnect(c) leaves alone everything of the other
\* connection ids: their registry entries, their session objects (with the
\* jump sessions these are tunnelled through), their terminals and the
\* tasks of those terminals; connects in progress are not disturbed either.
C18_DisconnectFrame ==
    [][\A c \in AllRemoteIds :
          disc'[c] # disc[c]
          => /\ \A o \in AllRemoteIds \ {c} :
                   /\ o \in DOMAIN connections <=> o \in DOMAIN connections'
                   /\ o \in DOMAIN connections
                      => connections'[o] = connections[o]
                   /\ SessionsOf(o)' = SessionsOf(o)
             /\ \A t \in DOMAIN sessions :
                   sessions[t].connection_id # c
                   => /\ t \in DOMAIN sessions'
                      /\ sessions'[t] = sessions[t]
             /\ \A tk \in tasks :
                   (~\E t \in DOMAIN sessions :
                        /\ sessions[t].connection_id = c
                        /\ sessions[t].task = tk.id)
                   => tk \in tasks'
             /\ cc' = cc]_vars

\* C18 witness: ssh_disconnect(c) has closed the terminals of c and is about
\* to remove its entry, a session reached through a jump host, while another
\* id is registered through a jump host of its own and has a terminal whose
\* task runs.
C18_Witness ==
    \E c \in RemoteIds, o \in AllRemoteIds \ RemoteIds :
        /\ disc[c] = "remove"
        /\ \E x \in RegSessions(c) : ssh[x].jump # NoSid
        /\ \E x \in RegSessions(o) : ssh[x].jump # NoSid
        /\ \E t \in DOMAIN sessions :
              /\ sessions[t].connection_id = o
              /\ \E tk \in tasks : tk.id = sessions[t].task

\* C21: every key in the agent's key set is a key with which a public-key
\* authentication has succeeded.
C21_AgentKeysAuthenticated ==
    \A i \in 1..Len(agent_keys) : agent_keys[i] \in accepted

RECURSIVE CountStrings(_)
\* The number of length-prefixed strings a byte sequence consists of.
CountStrings(b) ==
    IF b = <<>> THEN 0
    ELSE 1 + CountStrings(SubSeq(b, 5 + BE(b), Len(b)))

RECURSIVE Ed25519Identities(_)
Ed25519Identities(keys) ==
    IF keys = <<>> THEN <<>>
    ELSE (IF Head(keys).alg = "ed25519"
          THEN Str(Head(keys).blob) \o Str(Comment)
          ELSE <<>>) \o Ed25519Identities(Tail(keys))

\* C22: the response to REQUEST_IDENTITIES is IDENTITIES_ANSWER, its count
\* field is the number of identities that follow (blob and comment each),
\* and the identities are exactly the keys whose algorithm is Ed25519, each
\* with its blob.
C22_OnlyEd25519Advertised ==
    \A i \in 1..Len(agent_chan.responses) :
        LET req == agent_chan.requests[i]
            rsp == agent_chan.responses[i]
        IN  (req # <<>> /\ req[1] = SSH_AGENTC_REQUEST_IDENTITIES)
            => /\ rsp[1] = SSH_AGENT_IDENTITIES_ANSWER
               /\ 2 * BE(SubSeq(rsp, 2, 5))
                     = CountStrings(SubSeq(rsp, 6, Len(rsp)))
               /\ SubSeq(rsp, 6, Len(rsp)) = Ed25519Identities(agent_keys)

\* A request the agent serves: REQUEST_IDENTITIES, or a SIGN_REQUEST that
\* carries a key blob, the data and the flags, for a blob of a key it has.
Served(keys, req) ==
    /\ req # <<>>
    /\ \/ req[1] = SSH_AGENTC_REQUEST_IDENTITIES
       \/ /\ req[1] = SSH_AGENTC_SIGN_REQUEST
          /\ \E i \in 1..Len(keys) :
                LET n == Len(keys[i].blob) IN
                /\ Len(req) >= 1 + 4 + n + 4
                /\ SubSeq(req, 2, 5 + n) = Str(keys[i].blob)
                /\ Len(req) >= 1 + 4 + n + 4
                                + BE(SubSeq(req, 6 + n, 9 + n)) + 4

\* C23: the agent has answered every request it read but the one it is
\* working on, in the order read, and has answered FAILURE to every request
\* that is not one it serves; a served request got the answer of its kind.
C23_OneResponseFailureIfMalformed ==
    /\ Len(agent_chan.responses) \in
          {Len(agent_chan.requests), Len(agent_chan.requests) - 1}
    /\ \A i \in 1..Len(agent_chan.responses) :
          LET req == agent_chan.requests[i]
              rsp == agent_chan.responses[i]
          IN  IF Served(agent_keys, req)
              THEN rsp[1] = req[1] + 1
              ELSE rsp = <<SSH_AGENT_FAILURE>>

\* C23 witness: a truncated SIGN_REQUEST and a SIGN_REQUEST for a key the
\* agent has were answered, in this order, with keys in the agent.
C23_Witness ==
    /\ agent_keys # <<>>
    /\ Len(agent_chan.responses) = 2
    /\ agent_chan.requests[1] =
          <<SSH_AGENTC_SIGN_REQUEST>> \o Str(EdKey.blob) \o Str(SignData)
    /\ agent_chan.responses[1] = <<SSH_AGENT_FAILURE>>
    /\ agent_chan.responses[2][1] = SSH_AGENT_SIGN_RESPONSE

Reached(r) == r.res \in {"Ok", "Error"}

\* C24 as claimed: every tunnel_start and tunnel_stop command that has
\* returned has emitted one tunnel:status-change event.
C24_EveryCallEmits == Len(events) = tcalls

\* C24, amended: a tunnel_start or tunnel_stop command that got as far as
\* the tunnel manager emits exactly one event for its id on returning,
\* active or stopped when the manager succeeded and error when it failed; a
\* command that returns before (no tunnels.json, unknown id, connection not
\* registered) emits nothing.
C24_ReachedCallEmits ==
    [][tcalls' # tcalls =>
          IF Reached(ret')
          THEN events' = Append(events,
                  <<ret'.id,
                    IF ret'.res = "Error" THEN "error"
                    ELSE IF ret'.cmd = "tunnel_start" THEN "active"
                    ELSE "stopped">>)
          ELSE events' = events]_vars

\* C24 witness: a start that failed in the manager, a start that succeeded
\* and a stop that succeeded have each emitted their event.
C24_Witness ==
    /\ tcalls = 3
    /\ events = <<<<"a", "error">>, <<"a", "active">>, <<"a", "stopped">>>>

\* C25: tunnel_list and tunnel_get_all report a tunnel as active exactly
\* when that tunnel has been started and not stopped since.
C25_ActiveIffStarted ==
    ret.cmd \in {"tunnel_list", "tunnel_get_all"}
        => \A id \in DOMAIN ret.res :
              (ret.res[id] = "active") <=> (id \in started)

FastFailures == FastOutcomes \ {"Exit0"}

\* C26: fs_delete and fs_copy on a remote id try the fast path only when
\* an OS was detected, return success without SFTP exactly when exit status
\* 0 was received, and after every other end of the fast path run the SFTP
\* fallback and return its result.
C26_FastPathOrSftp ==
    ret.cmd \in {"fs_delete", "fs_copy"}
        => /\ ret.res.fast # "NotTried" => detected_os[ret.id]
           /\ (ret.res.result = "Ok" /\ ret.res.sftp = "NotRun")
                 <=> ret.res.fast = "Exit0"
           /\ ret.res.fast \in FastFailures
                 => ret.res.sftp # "NotRun" /\ ret.res.result = ret.res.sftp

\* C26 witness: an fs_delete whose rm -rf exited with a non-zero status
\* returned what the SFTP delete returned.
C26_Witness ==
    /\ ret.cmd = "fs_delete"
    /\ ret.res.fast = "ExitNonZero"
    /\ ret.res.sftp = "Err"
    /\ ret.res.result = "Err"

\* C27: an fs_copy_batch on a remote id with a detected OS whose batch
\* command failed in any way has copied over SFTP.
C27_BatchFailureFallsBack ==
    (ret.cmd = "fs_copy_batch" /\ ret.res.fast \in FastFailures)
        => ret.res.sftp # "NotRun"

\* a is before b in the lexicographic order of byte strings.
LexLess(a, b) ==
    \/ Len(a) < Len(b) /\ SubSeq(b, 1, Len(a)) = a
    \/ \E k \in 1..Len(a) :
          /\ k <= Len(b)
          /\ SubSeq(a, 1, k - 1) = SubSeq(b, 1, k - 1)
          /\ a[k] < b[k]

Listed(r) ==
    {i \in 1..Len(r.res.dir) :
        r.id = LOCAL_ID \/ r.res.dir[i].name \notin {Dot, DotDot}}

\* C28: what fs_list returns is a permutation of the directory's entries
\* (without "." and ".." for a remote directory), every entry of type d is
\* before every entry of another type, and within each of the two classes
\* the names ascend lexicographically.
C28_ListSorted ==
    (ret.cmd = "fs_list" /\ ret.res.result = "Ok")
        => LET out == ret.res.entries IN
           /\ Len(out) = Cardinality(Listed(ret))
           /\ \A i \in Listed(ret) :
                 \E j \in 1..Len(out) :
                    /\ out[j].name = ret.res.dir[i].name
                    /\ out[j].type = "d" <=>
                          IF ret.id = LOCAL_ID
                          THEN is_dir_local(ret.res.dir[i])
                          ELSE is_dir_remote(ret.res.dir[i])
           /\ \A i, j \in 1..Len(out) :
                 i < j => /\ ~(out[i].type # "d" /\ out[j].type = "d")
                          /\ out[i].type = out[j].type
                                => LexLess(out[i].name, out[j].name)

\* C28 witness: a remote directory read as file ab, "..", directory a was
\* listed as a, ab.
C28_Witness ==
    /\ ret.cmd = "fs_list"
    /\ ret.id # LOCAL_ID
    /\ ret.res.result = "Ok"
    /\ ret.res.dir = <<[name |-> <<97, 98>>, mode |-> FileMode],
                       [name |-> DotDot, mode |-> DirMode],
                       [name |-> <<97>>, mode |-> DirMode]>>
    /\ ret.res.entries = <<[name |-> <<97>>, type |-> "d"],
                           [name |-> <<97, 98>>, type |-> "-"]>>

\* C29: ssh_migrate_all_keys run right after ssh_migrate_all_keys leaves
\* the key files and every connection's private key path as they are.
C29_MigrateIdempotent ==
    [][(fresh >= 1 /\ fresh' > fresh) => UNCHANGED <<connections_json, files>>]_vars

\* C29 witness: two runs in a row, the first of which moved a key: a
\* connection points into the keys directory at a file that is there.
C29_Witness ==
    /\ fresh = 2
    /\ \E i \in DOMAIN connections_json.paths :
          /\ connections_json.paths[i].dir = "keys"
          /\ connections_json.paths[i] \in DOMAIN files

\* A call that is waiting for SSH network I/O or for a send on a bounded
\* channel to return.
Awaiting(k) ==
    \/ lk[k] \in {"exec", "send"}
    \/ tc[k].pc \in {"open", "r_req", "r_close"}

\* C30: no call holds the lock of the connections map or of the sessions
\* map while it awaits SSH network I/O or a send on a bounded channel.
C30_NoMapLockAcrossAwait ==
    \A k \in Calls :
        Awaiting(k) => held.connections # k /\ held.sessions # k

\* C31: when the remote driver handles a resize it issues exactly one
\* window_change, with the size enqueued last among the resizes pending at
\* that moment, and none of them stays queued; so with nothing pending, the
\* last window_change issued carries the last terminal_resize accepted.
C31_ResizeDrainsToLatest ==
    /\ [][\A d \in DOMAIN io \cap DOMAIN io' :
            Len(io'[d].resize_rx) < Len(io[d].resize_rx)
            => /\ io'[d].wc = io[d].wc + 1
               /\ io'[d].issued = io[d].resize_rx[Len(io[d].resize_rx)]
               /\ io'[d].resize_rx = <<>>]_vars
    /\ [](\A d \in DOMAIN io :
            (io[d].nrz > 0 /\ io[d].resize_rx = <<>>)
            => (io[d].wc > 0 /\ io[d].issued = io[d].req))

\* Two resizes of different sizes were pending and one window_change
\* handled both.
C31_Witness ==
    \E d \in DOMAIN io :
        /\ io[d].nrz = 2 /\ io[d].wc = 1 /\ io[d].resize_rx = <<>>
        /\ io[d].issued = 120 /\ io[d].win # io[d].issued

\* C32: every ExtendedData message the remote driver receives is emitted
\* as terminal-output-{id} with its bytes, in arrival order among the Data
\* messages: what was emitted is the data of all messages that arrived.
C32_ExtendedDataEmitted ==
    \A d \in DOMAIN io :
        io[d].emitted = [i \in 1..Len(io[d].got) |-> io[d].got[i].data]

\* The transfers issued so far have pairwise distinct transfer ids.
DistinctTids ==
    \A s, t \in DOMAIN xf : s # t => xf[s].tid # xf[t].tid

\* C33: with pairwise distinct transfer ids, the id of a transfer is out of
\* the cancellation table from before its terminal event is emitted, and
\* the table is empty whenever no transfer is in flight.
C33_TableClearedAtTermination ==
    DistinctTids =>
       /\ \A s \in DOMAIN xf :
             xf[s].pc \in {"emit", "done"} => xf[s].tid \notin DOMAIN transfers
       /\ (\A s \in DOMAIN xf : xf[s].pc = "done") => transfers = <<>>

\* Two transfers under different ids have both ended, one of them a
\* cancelled download whose token had been registered.
C33_Witness ==
    /\ DOMAIN xf = PairSlots /\ DistinctTids
    /\ \A s \in PairSlots : xf[s].pc = "done"
    /\ xf["x1"].kind = "get" /\ xf["x1"].result = "Cancelled"
    /\ transfers = <<>>

\* C34: at most 4 chunks are queued between the reader task and the
\* consumer; while the queue is full the reader, waiting in send with its
\* next chunk, neither enqueues nor reads, and it goes on only after the
\* consumer has taken a chunk (or has dropped the receiver).
C34_QueueBounded ==
    /\ [](\A s \in DOMAIN xf : Len(xf[s].q) <= QueueCap)
    /\ [][\A s \in DOMAIN xf :
            (xf[s].rx /\ xf'[s].rx /\ Len(xf[s].q) = QueueCap
               /\ xf[s].prod \in {"sending", "send_last"})
            => /\ xf'[s].prod = xf[s].prod
               /\ xf'[s].pend = xf[s].pend
               /\ xf'[s].off = xf[s].off
               /\ Len(xf'[s].q) <= Len(xf[s].q)]_vars

\* The queue is full and the reader waits in send with a fifth chunk.
C34_Witness ==
    \E s \in DOMAIN xf :
        /\ xf[s].rx /\ Len(xf[s].q) = QueueCap
        /\ xf[s].prod = "sending" /\ xf[s].pend.ok

\* Transfer s has inserted its token and has not yet reached its own
\* transfers.remove.
HoldsToken(s) ==
    \/ xf[s].pc \in {"dir", "open", "recv", "write", "cleanup"}
    \/ xf[s].kind = "put" /\ xf[s].pc = "start"
    \/ xf[s].kind = "copy" /\ xf[s].pc \in {"src", "size", "dst"}

\* C35: also with two transfers in flight under one transfer id, the entry
\* of the id in the cancellation table is the token of a transfer for as
\* long as that transfer is in flight, so that sftp_cancel_transfer with
\* the id sets the flag it checks.
C35_TokenKeptWhileInFlight ==
    \A s \in DOMAIN xf :
        HoldsToken(s) =>
           /\ xf[s].tid \in DOMAIN transfers
           /\ transfers[xf[s].tid] = s

\* The reader task of the current file has not ended.
ProducerLive(s) == s \in DOMAIN xf /\ xf[s].prod \notin {"none", "done"}

\* C36: once the consumer of a file's pipeline has stopped (end of file,
\* cancellation, a write or read error), the reader task spawned for the
\* file ends, also when it was waiting to send into a full queue.
C36_ProducerTerminates ==
    \A s \in Slots :
        (ProducerLive(s) /\ ~xf[s].rx) ~> ~ProducerLive(s)

\* The consumer has stopped while the reader waits on a full queue.
C36_Witness ==
    \E s \in DOMAIN xf :
        /\ ~xf[s].rx /\ xf[s].prod = "sending"
        /\ Len(xf[s].q) = QueueCap
        /\ xf[s].result \in {"Cancelled", "IoError"}

\* C37: in every transfer-progress event total is at least 1 and
\* 0 <= transferred <= total, also when entries could not be stat'ed or
\* listed while the total was pre-computed (the source tree of a transfer
\* is fixed at its issue).
C37_ProgressWithinTotal ==
    \A s \in DOMAIN xf :
        \A i \in 1..Len(xf[s].events) :
            xf[s].events[i].ev = "progress" =>
               /\ xf[s].events[i].total >= 1
               /\ 0 <= xf[s].events[i].transferred
               /\ xf[s].events[i].transferred <= xf[s].events[i].total

\* C38: once terminal_close(id) has removed the session, the task that
\* emits terminal-output-{id} and terminal-exit-{id} for it, a local
\* reader or a remote driver, is no longer running, so it emits nothing
\* after the call has returned.
C38_NoProducerAfterClose ==
    [][\A t \in DOMAIN sessions :
          t \notin DOMAIN sessions'
          => ~\E tk \in tasks' : tk.id = sessions[t].task]_vars

\* C39: a remote ssh_exec returns the command's stdout as success only if
\* an exit status of 0 was received from the remote; a channel that ends
\* without an exit status is reported as an error.
C39_SuccessOnlyOnExitZero ==
    (ret.cmd = "ssh_exec" /\ ret.res.result = "Ok")
        => (ret.res.received /\ ret.res.code = 0)

\* C40: a remote fs_copy_batch returns success only if every operation of
\* the batch was copied: by the command, or else by the SFTP fallback.
C40_BatchSuccessMeansAllCopied ==
    (ret.cmd = "fs_copy_batch" /\ ret.res.result = "Ok")
        => \/ \A i \in 1..Len(ret.res.copied) : ret.res.copied[i]
           \/ ret.res.sftp = "Ok"

====
